---- MODULE Spec2Model ----
(***************************************************************************)
(* Model of local-agent-toolkit: the tool-calling orchestration loop of    *)
(* OpenAIAgent, OpenAIAgentWithMCP and OllamaAgent (run and                *)
(* run_with_streaming), the helper run_agent_with_question, and the MCP    *)
(* process protocol client (MCPClient / MCPManager).                       *)
(***************************************************************************)
EXTENDS Integers, Sequences, FiniteSets, TLC

(* ------------------------------ bounds -------------------------------- *)
\* largest max_iterations a run is started with
MaxIter == 2
\* most tool-call requests in one whole-response assistant message
MaxCalls == 2
\* most chunks in one streamed model reply
MaxChunks == 2

(* ----------------------------- vocabulary ------------------------------ *)
\* Python's None, and a key that a dict does not have
None == "<None>"
Absent == "<absent>"

AgentClasses == {"OpenAIAgent", "OpenAIAgentWithMCP", "OllamaAgent"}
Entries == {"run", "run_with_streaming"}

Dialect(a) == IF a = "OllamaAgent" THEN "ollama" ELSE "openai"

\* the registry the agent was constructed with (tool_callables): one local
\* callable, and for the MCP agent one callable contributed by a server
Registry(a) ==
    IF a = "OpenAIAgentWithMCP" THEN {"read_file", "fs_read"} ELSE {"read_file"}

\* tool names a model may ask for: registered ones and one that is not
RequestNames(a) == IF a = "OpenAIAgentWithMCP" THEN {"fs_read", "ghost"}
                   ELSE {"read_file", "ghost"}

\* argument texts a model may emit whole; the streamed fragments "{" and "}"
\* concatenate to "{}"
ArgTexts == {"{}", "{"}

SENTINEL ==
    "The agent could not complete the task within the maximum number of iterations."
EMPTY_RESPONSE == "The agent received an empty response from the model."
ConnectionError == "Connection error."
JSONDecodeError == "Expecting value: line 1 column 1 (char 0)"
ToolFailure == "boom"
ToolOutput == "out"

(* ---------------------------- Python values ---------------------------- *)
\* a value a tool callable may return: a string, a boolean, a list of
\* strings, or a dict from strings to booleans
Value(type, text, truth, items, entries) ==
    [type |-> type, text |-> text, truth |-> truth, items |-> items,
     entries |-> entries]

StrValue(text) == Value("str", text, FALSE, <<>>, <<>>)
BoolValue(truth) == Value("bool", "", truth, <<>>, <<>>)
ListValue(items) == Value("list", "", FALSE, items, <<>>)
DictValue(entries) == Value("dict", "", FALSE, <<>>, entries)

\* sep.join(parts)
RECURSIVE JoinWith(_, _)
JoinWith(sep, parts) ==
    IF parts = <<>> THEN ""
    ELSE IF Len(parts) = 1 THEN parts[1]
    ELSE parts[1] \o sep \o JoinWith(sep, Tail(parts))

\* repr() of a string, and str() of a boolean
ReprStr(text) == "'" \o text \o "'"
BoolStr(truth) == IF truth THEN "True" ELSE "False"

\* mutant of PyStr: a value that is no string is passed on as it is
PyStrOfStringsOnly(v) == IF v.type = "str" THEN v.text ELSE None

\* str(tool_output)
PyStr(v) ==
    CASE v.type = "str" -> v.text
      [] v.type = "bool" -> BoolStr(v.truth)
      [] v.type = "list" ->
            "[" \o JoinWith(", ", [j \in 1..Len(v.items) |-> ReprStr(v.items[j])]) \o "]"
      [] v.type = "dict" ->
            "{" \o JoinWith(", ", [j \in 1..Len(v.entries) |->
                                      ReprStr(v.entries[j].key) \o ": " \o
                                      BoolStr(v.entries[j].truth)]) \o "}"

\* what the callables of the toolkit return: a text (read_file), True
\* (mkdir), a list of names (list_files), a result dict
\* (execute_shell_command)
ToolOutputs ==
    {StrValue("out"), BoolValue(TRUE), ListValue(<<"a", "b">>),
     DictValue(<<[key |-> "success", truth |-> FALSE]>>)}

(* ------------------------------ messages ------------------------------- *)
Msg(role, content, calls, id, name) ==
    [role |-> role, content |-> content, tool_calls |-> calls,
     tool_call_id |-> id, name |-> name]

UserMessage(prompt) == Msg("user", prompt, <<>>, Absent, Absent)

Request(id, name, arguments) == [id |-> id, name |-> name, arguments |-> arguments]

\* json.loads on an argument text: the texts that parse, and the error otherwise
JsonLoads(text) ==
    IF text \in {"{}"} THEN [ok |-> TRUE, value |-> text]
    ELSE [ok |-> FALSE, value |-> JSONDecodeError]

\* the tool-role message of a request whose name is not in tool_callables
NotFoundMessage(d, call) ==
    IF d = "openai"
    THEN Msg("tool", "Error: Tool '" \o call.name \o "' not found.", <<>>, call.id, Absent)
    ELSE Msg("tool", "Error: Tool '" \o call.name \o "' not found.", <<>>, Absent, call.name)

\* the tool-role message of a callable that returned: str(tool_output)
OutputMessage(d, call, out) ==
    IF d = "openai" THEN Msg("tool", out, <<>>, call.id, Absent)
    ELSE Msg("tool", out, <<>>, Absent, call.name)

\* the tool-role message of a callable that raised e
ErrorMessage(d, call, e) ==
    IF d = "openai"
    THEN Msg("tool", "Error executing tool '" \o call.name \o "': " \o e, <<>>, call.id, Absent)
    ELSE Msg("tool", "Error executing tool '" \o call.name \o "': " \o e, <<>>, Absent, call.name)

(* ------------------------- what a model may reply ---------------------- *)
\* the id the vendor gives the k-th request of the i-th model call
CallId(it, n) == "call_" \o ToString(it) \o "_" \o ToString(n)

\* all sequences over S of length 1..n
RECURSIVE SeqsUpTo(_, _)
SeqsUpTo(S, n) ==
    IF n = 0 THEN {}
    ELSE {<<x>> : x \in S} \cup
         {Append(s, x) : s \in SeqsUpTo(S, n - 1), x \in S}

\* the shapes of a request: its name and its argument text
Shapes(a) ==
    IF Dialect(a) = "openai"
    THEN {[name |-> n, arguments |-> t] : n \in RequestNames(a), t \in ArgTexts}
    ELSE {[name |-> n, arguments |-> "{}"] : n \in RequestNames(a)}

\* vendor ids by position (the Ollama dialect has no ids)
WithIds(a, it, shapes) ==
    [n \in 1..Len(shapes) |->
        Request(IF Dialect(a) = "openai" THEN CallId(it, n) ELSE Absent,
                shapes[n].name, shapes[n].arguments)]

\* content of a whole response: OpenAI's may be None, Ollama's is a string
FinalContents(a) == IF Dialect(a) = "openai" THEN {None, "answer"} ELSE {"", "answer"}
NoContent(a) == IF Dialect(a) = "openai" THEN None ELSE ""

\* whole-response replies: a final answer, or a message carrying requests
WholeReplies(a, it) ==
    {[content |-> c, tool_calls |-> <<>>] : c \in FinalContents(a)} \cup
    {[content |-> NoContent(a), tool_calls |-> WithIds(a, it, sh)] :
        sh \in SeqsUpTo(Shapes(a), MaxCalls)}

(* ---------------------- streaming delta accumulator -------------------- *)
Delta(index, id, name, arguments) ==
    [index |-> index, id |-> id, name |-> name, arguments |-> arguments]

Chunk(content, role, deltas) == [content |-> content, role |-> role, deltas |-> deltas]

\* the chunks an OpenAI-dialect stream is made of: a content fragment, the two
\* halves of the request at index 0, and a whole request at index 1
OpenAIChunks(a, it) ==
    {Chunk("answer", "assistant", <<>>)} \cup
    {Chunk(None, None, <<Delta(0, CallId(it, 1), n, "{")>>) : n \in RequestNames(a)} \cup
    {Chunk(None, None, <<Delta(0, "", "", "}")>>)} \cup
    {Chunk(None, None, <<Delta(1, CallId(it, 2), n, "{}")>>) : n \in RequestNames(a)}

\* the chunks of an Ollama stream: tool_calls arrive as whole requests
OllamaChunks(a) ==
    {Chunk("answer", "assistant", <<>>)} \cup
    {Chunk(None, "assistant", <<Request(Absent, n, "{}")>>) : n \in RequestNames(a)}

Streams(a, it) ==
    {<<>>} \cup SeqsUpTo(IF Dialect(a) = "openai" THEN OpenAIChunks(a, it)
                         ELSE OllamaChunks(a), MaxChunks)

Placeholder == Request("", "", "")

\* while len(tool_calls) <= index: tool_calls.append(placeholder)
RECURSIVE PadTo(_, _)
PadTo(calls, index) ==
    IF Len(calls) <= index THEN PadTo(Append(calls, Placeholder), index) ELSE calls

\* mutant of MergeDelta: the argument fragment replaces what was accumulated
MergeDeltaReplacing(calls, d) ==
    LET padded == PadTo(calls, d.index)
        slot == padded[d.index + 1]
    IN [padded EXCEPT ![d.index + 1] =
            Request(IF d.id # "" THEN d.id ELSE slot.id,
                    IF d.name # "" THEN d.name ELSE slot.name,
                    d.arguments)]

\* mutant of MergeDelta: the id and the name of the fragment always replace
\* those of the slot
MergeDeltaOverwriting(calls, d) ==
    LET padded == PadTo(calls, d.index)
        slot == padded[d.index + 1]
    IN [padded EXCEPT ![d.index + 1] =
            Request(d.id, d.name, slot.arguments \o d.arguments)]

\* one tool_call_delta merged into the slots
MergeDelta(calls, d) ==
    LET padded == PadTo(calls, d.index)
        slot == padded[d.index + 1]
    IN [padded EXCEPT ![d.index + 1] =
            Request(IF d.id # "" THEN d.id ELSE slot.id,
                    IF d.name # "" THEN d.name ELSE slot.name,
                    slot.arguments \o d.arguments)]

RECURSIVE MergeDeltas(_, _)
MergeDeltas(calls, ds) ==
    IF ds = <<>> THEN calls ELSE MergeDeltas(MergeDelta(calls, Head(ds)), Tail(ds))

\* the chunk loop of OpenAIAgent.run_with_streaming
RECURSIVE AccumulateOpenAI(_, _)
AccumulateOpenAI(acc, chunks) ==
    IF chunks = <<>> THEN acc
    ELSE LET c == Head(chunks)
         IN AccumulateOpenAI(
                [content |-> IF c.content # None THEN acc.content \o c.content
                             ELSE acc.content,
                 role |-> IF c.role # None THEN c.role ELSE acc.role,
                 tool_calls |-> MergeDeltas(acc.tool_calls, c.deltas)],
                Tail(chunks))

\* the chunk loop of OllamaAgent.run_with_streaming
RECURSIVE AccumulateOllama(_, _)
AccumulateOllama(acc, chunks) ==
    IF chunks = <<>> THEN acc
    ELSE LET c == Head(chunks)
         IN AccumulateOllama(
                [content |-> IF c.content # None THEN acc.content \o c.content
                             ELSE acc.content,
                 role |-> IF c.role # None THEN c.role ELSE acc.role,
                 tool_calls |-> acc.tool_calls \o c.deltas],
                Tail(chunks))

\* the finished message of a stream
Accumulate(a, chunks) ==
    LET start == [content |-> "", role |-> "assistant", tool_calls |-> <<>>]
    IN IF Dialect(a) = "openai" THEN AccumulateOpenAI(start, chunks)
       ELSE AccumulateOllama(start, chunks)

\* the indices a tool-call fragment may carry
Indices == 0..2

\* most chunks of a stream fed to the accumulator chunk by chunk
MaxFragments == 3

\* the chunks of a stream whose fragments carry any index: content fragments,
\* chunks of one fragment (with or without id and name, with or without an
\* argument fragment), and a chunk of two fragments
FragmentChunks ==
    {Chunk(c, None, <<>>) : c \in {"p", "q"}} \cup
    {Chunk(None, None, <<Delta(n, idn[1], idn[2], t)>>) :
        n \in Indices, idn \in {<<"", "">>, <<"a", "f">>, <<"b", "g">>},
        t \in {"", "x", "y"}} \cup
    {Chunk(None, "assistant", <<Delta(2, "c", "h", "x"), Delta(0, "", "", "y")>>)}

\* current_message and tool_calls before the first chunk
EmptyMessage == [content |-> "", role |-> "assistant", tool_calls |-> <<>>]

(* ------------------------------- state --------------------------------- *)
VARIABLES
    agent,           \* class of the agent instance
    entry,           \* the method called: run or run_with_streaming
    caller,          \* "direct", or "helper" for run_agent_with_question
    messages,        \* self.messages
    max_iterations,  \* int(max_iterations) of the call in progress
    pc,              \* where the call is: idle, model, tool, returned, raised
    i,               \* iterations of the for loop begun so far
    tool_calls,      \* the requests of the turn being dispatched
    k,               \* position in tool_calls of the request being dispatched
    result,          \* the value run returned
    model_calls,     \* model calls issued so far
    steady           \* every reply so far asked for exactly one registered tool

agentVars == <<agent, entry, caller, messages, max_iterations, pc, i,
               tool_calls, k, result, model_calls, steady>>

\* run_agent_with_question
VARIABLES
    serializable_messages,  \* the list built from agent.messages
    messages_file,          \* what the messages file holds
    ret                     \* the pair the helper returned

helperVars == <<serializable_messages, messages_file, ret>>

\* MCPClient / MCPManager, and the registry of the agent that owns the manager
VARIABLES
    servers,           \* MCPClient.servers: the configured server names
    processes,         \* MCPClient.processes: server name -> child process
    tools,             \* MCPClient.tools: namespaced name -> tool info
    spawned,           \* every child process ever spawned: pid -> server name
    alive,             \* the child processes that have not exited
    wire,              \* pid -> what was written to and read from its pipes
    mpc,               \* where the client is: idle, init_read, list_read, stop_wait
    op,                \* the public operation in progress
    cur,               \* the server name the operation works on
    todo,              \* stop_all_servers: the names still to stop
    last,              \* outcome of the operation that returned last
    tool_definitions,  \* OpenAIAgentWithMCP.tool_definitions: name, and the
                       \* source it was taken from ("local" or a server name)
    tool_callables,    \* OpenAIAgentWithMCP.tool_callables: name -> source
    signals,           \* the signals sent to the child being stopped, in order
    ignoring,          \* children that do not exit on the terminate they got
    pipe,              \* pid -> lines on the child's stdout not yet read
    answers,           \* pid -> per line read: the request awaited, the
                       \* request the line answers, and what it carried
    call_request       \* call_tool: its arguments, the request it wrote and
                       \* the line it read

mcpVars == <<servers, processes, tools, spawned, alive, wire, mpc, op, cur,
             todo, last, tool_definitions, tool_callables, signals, ignoring,
             pipe, answers, call_request>>

\* the chunk loop of run_with_streaming, chunk by chunk
VARIABLES
    completion,        \* the chunks of the stream consumed so far
    current_message    \* the message accumulated from them

streamVars == <<completion, current_message>>

\* a second agent, constructed as the first one, that is called through
\* run_with_streaming whenever the first one is called through run
VARIABLES
    streaming_messages,  \* self.messages of the second agent
    streaming_result     \* the value its run_with_streaming returned

twinVars == <<streaming_messages, streaming_result>>

\* a reader of the messages file
VARIABLES
    loaded             \* what json.load returned for the messages file

jsonVars == <<loaded>>

\* the construction of an OpenAIAgentWithMCP, and the objects of its caller
VARIABLES
    phase,                 \* __init__: "starting" in the loop of
                           \* _start_mcp_servers, "constructed" when it is over
    pending,               \* the configured names the loop has not reached yet
    attempted,             \* the names start_server was called for by the loop
    arg_tool_definitions,  \* the list passed as tool_definitions, as it was
                           \* when it was passed
    arg_tool_callables     \* the dict passed as tool_callables, likewise

constructVars == <<phase, pending, attempted, arg_tool_definitions,
                   arg_tool_callables>>

\* execute_shell_command
VARIABLES
    shell_pc,          \* "idle", or "running" inside subprocess.run
    shell_call,        \* the arguments of the call in progress
    shell_outcomes     \* how every call so far ended, in order

shellVars == <<shell_pc, shell_call, shell_outcomes>>

\* MCPManager.get_tool_callables
VARIABLES
    callables,         \* the dict being built: for every name registered, the
                       \* call of make_tool_callable its lambda was made by
    frames,            \* the value of tn in every call of make_tool_callable
    tool_name,         \* the loop variable of get_tool_callables
    remaining          \* the names of the catalogue the loop has not reached

closureVars == <<callables, frames, tool_name, remaining>>

vars == <<agentVars, helperVars, mcpVars, streamVars, twinVars, jsonVars,
          constructVars, shellVars, closureVars>>

SystemMessage ==
    Msg("system", "You are a helpful assistant that can call tools to answer questions.",
        <<>>, Absent, Absent)

AssistantMessage(role, content, calls) == Msg(role, content, calls, Absent, Absent)

(* --------------------------- orchestration loop ------------------------ *)
\* the head of `for i in range(int(max_iterations))`: the next model call, or
\* the sentinel once the range is exhausted
LoopHead(done, n) ==
    IF done < n
    THEN /\ pc' = "model"
         /\ i' = done + 1
         /\ model_calls' = model_calls + 1
         /\ result' = result
    ELSE /\ pc' = "returned"
         /\ result' = SENTINEL
         /\ i' = done
         /\ model_calls' = model_calls

\* the body of `for tool_call in tool_calls` from request `from` up to the next
\* point where control leaves the loop: a callable is invoked, json.loads raises
\* (OpenAI dialect only: the Ollama arguments are a mapping already), or the
\* requests are exhausted.  Requests whose tool is not registered are answered
\* on the way.
RECURSIVE DispatchScan(_, _, _, _, _)
DispatchScan(d, reg, msgs, calls, from) ==
    IF from > Len(calls) THEN [messages |-> msgs, k |-> from, at |-> "end"]
    ELSE LET call == calls[from]
         IN IF d = "openai" /\ ~JsonLoads(call.arguments).ok
            THEN [messages |-> msgs, k |-> from, at |-> "parse_error"]
            ELSE IF call.name \notin reg
            THEN DispatchScan(d, reg, Append(msgs, NotFoundMessage(d, call)),
                              calls, from + 1)
            ELSE [messages |-> msgs, k |-> from, at |-> "tool"]

\* mutant of ApiError: the handler returns no value
ApiErrorWithoutValue(e) == None

\* the outer `except Exception as e: return f"API error: {e}"` of the OpenAI agents
ApiError(e) == "API error: " \o e

Continue(msgs, calls, from) ==
    LET s == DispatchScan(Dialect(agent), Registry(agent), msgs, calls, from)
    IN /\ messages' = s.messages
       /\ tool_calls' = calls
       /\ k' = s.k
       /\ CASE s.at = "tool" ->
                 /\ pc' = "tool"
                 /\ UNCHANGED <<i, model_calls, result>>
            [] s.at = "parse_error" ->
                 /\ pc' = "returned"
                 /\ result' = ApiError(JSONDecodeError)
                 /\ UNCHANGED <<i, model_calls>>
            [] s.at = "end" -> LoopHead(i, max_iterations)

\* whether a finished message asks for exactly one registered tool
OneExistingTool(calls) == Len(calls) = 1 /\ calls[1].name \in Registry(agent)

\* mutant of HasModelReply: the requests are dispatched before the assistant
\* message that carries them is appended
HasModelReplyDispatchFirst(msg, returned) ==
    /\ steady' = (steady /\ OneExistingTool(msg.tool_calls))
    /\ IF msg.tool_calls = <<>>
       THEN /\ messages' = Append(messages, msg)
            /\ pc' = "returned"
            /\ result' = returned
            /\ UNCHANGED <<i, model_calls, tool_calls, k>>
       ELSE Continue(messages, msg.tool_calls, 1)

\* mutant of HasModelReply: a message without tool calls does not end the
\* call, the loop goes on to its next iteration
HasModelReplyLooping(msg, returned) ==
    /\ steady' = (steady /\ OneExistingTool(msg.tool_calls))
    /\ IF msg.tool_calls = <<>>
       THEN /\ messages' = Append(messages, msg)
            /\ LoopHead(i, max_iterations)
            /\ UNCHANGED <<tool_calls, k>>
       ELSE Continue(Append(messages, msg), msg.tool_calls, 1)

\* the finished assistant message is appended; without tool calls its content
\* is returned, otherwise its requests are dispatched
HasModelReply(msg, returned) ==
    /\ steady' = (steady /\ OneExistingTool(msg.tool_calls))
    /\ IF msg.tool_calls = <<>>
       THEN /\ messages' = Append(messages, msg)
            /\ pc' = "returned"
            /\ result' = returned
            /\ UNCHANGED <<i, model_calls, tool_calls, k>>
       ELSE Continue(Append(messages, msg), msg.tool_calls, 1)

\* run / run_with_streaming up to the first model call
Run(e, n) ==
    /\ pc = "idle"
    /\ entry' = e
    /\ max_iterations' = n
    /\ messages' = Append(messages, UserMessage("question"))
    /\ LoopHead(0, n)
    /\ UNCHANGED <<agent, caller, tool_calls, k, steady>>
    /\ UNCHANGED <<helperVars, mcpVars, streamVars, twinVars, jsonVars, constructVars, shellVars, closureVars>>

\* most calls of run / run_with_streaming on one agent
MaxRuns == 2

\* the calls made on the agent so far: each appended one user message
Runs == Cardinality({p \in 1..Len(messages) : messages[p].role = "user"})

\* mutant of RunAgain: a further call starts from a history of its own
RunAgainOnNewHistory(e, n) ==
    /\ pc \in {"returned", "raised"}
    /\ Runs < MaxRuns
    /\ model_calls + n <= MaxIter
    /\ entry' = e
    /\ max_iterations' = n
    /\ messages' = <<UserMessage("question")>>
    /\ LoopHead(0, n)
    /\ UNCHANGED <<agent, caller, tool_calls, k, steady>>
    /\ UNCHANGED <<helperVars, mcpVars, streamVars, twinVars, jsonVars, constructVars, shellVars, closureVars>>

\* a further call of run / run_with_streaming on an agent whose last call is
\* over (it returned, or it raised and the caller went on)
RunAgain(e, n) ==
    /\ pc \in {"returned", "raised"}
    /\ Runs < MaxRuns
    /\ model_calls + n <= MaxIter
    /\ entry' = e
    /\ max_iterations' = n
    /\ messages' = Append(messages, UserMessage("question"))
    /\ LoopHead(0, n)
    /\ UNCHANGED <<agent, caller, tool_calls, k, steady>>
    /\ UNCHANGED <<helperVars, mcpVars, streamVars, twinVars, jsonVars, constructVars, shellVars, closureVars>>

\* the model call returns a whole response (run)
ModelReplies ==
    /\ pc = "model" /\ entry = "run"
    /\ \E r \in WholeReplies(agent, model_calls) :
          HasModelReply(AssistantMessage("assistant", r.content, r.tool_calls),
                        IF Dialect(agent) = "openai" /\ r.content = None
                        THEN "" ELSE r.content)
    /\ UNCHANGED <<agent, entry, caller, max_iterations>>
    /\ UNCHANGED <<helperVars, mcpVars, streamVars, twinVars, jsonVars, constructVars, shellVars, closureVars>>

\* the model call returns a stream, consumed to its end (run_with_streaming)
ModelStreams ==
    /\ pc = "model" /\ entry = "run_with_streaming"
    /\ \E chunks \in Streams(agent, model_calls) :
          LET fin == Accumulate(agent, chunks)
          IN HasModelReply(AssistantMessage(fin.role, fin.content, fin.tool_calls),
                           fin.content)
    /\ UNCHANGED <<agent, entry, caller, max_iterations>>
    /\ UNCHANGED <<helperVars, mcpVars, streamVars, twinVars, jsonVars, constructVars, shellVars, closureVars>>

\* what response.get('message') is for a response that carries no message:
\* the key is missing, or its value is None or an empty dict
NoMessages == {Absent, None, "{}"}

\* mutant of HasMessage: only the presence of the key is tested
HasMessageKey(message) == message # Absent

\* 'message' in response and response['message']
HasMessage(message) == message # Absent /\ message \notin {None, "{}", ""}

\* OllamaAgent.run: the response has no message.  (Were such a value taken
\* for a message, it would be appended and the read of its tool_calls or of
\* its content would raise.)
ModelRepliesEmpty ==
    /\ pc = "model" /\ entry = "run" /\ Dialect(agent) = "ollama"
    /\ \E message \in NoMessages :
          IF HasMessage(message)
          THEN /\ messages' = Append(messages, AssistantMessage(Absent, message, <<>>))
               /\ pc' = "raised"
               /\ result' = result
          ELSE /\ messages' = messages
               /\ pc' = "returned"
               /\ result' = EMPTY_RESPONSE
    /\ steady' = FALSE
    /\ UNCHANGED <<agent, entry, caller, max_iterations, i,
                   tool_calls, k, model_calls>>
    /\ UNCHANGED <<helperVars, mcpVars, streamVars, twinVars, jsonVars, constructVars, shellVars, closureVars>>

\* the model call (or the iteration of its stream) raises: the OpenAI agents
\* catch it and return a string, the Ollama agent has no handler
ModelFails ==
    /\ pc = "model"
    /\ IF Dialect(agent) = "openai"
       THEN pc' = "returned" /\ result' = ApiError(ConnectionError)
       ELSE pc' = "raised" /\ result' = result
    /\ steady' = FALSE
    /\ UNCHANGED <<agent, entry, caller, messages, max_iterations, i,
                   tool_calls, k, model_calls>>
    /\ UNCHANGED <<helperVars, mcpVars, streamVars, twinVars, jsonVars, constructVars, shellVars, closureVars>>

\* the callable of request k returns tool_output
ToolReturns(tool_output) ==
    /\ pc = "tool"
    /\ Continue(Append(messages,
                       OutputMessage(Dialect(agent), tool_calls[k], PyStr(tool_output))),
                tool_calls, k + 1)
    /\ UNCHANGED <<agent, entry, caller, max_iterations, steady>>
    /\ UNCHANGED <<helperVars, mcpVars, streamVars, twinVars, jsonVars, constructVars, shellVars, closureVars>>

\* mutant of ToolRaises: the exception of the callable reaches the handler of
\* the model call and ends the run
ToolRaisesFatal ==
    /\ pc = "tool"
    /\ pc' = "returned"
    /\ result' = ApiError(ToolFailure)
    /\ UNCHANGED <<agent, entry, caller, messages, max_iterations, i, tool_calls,
                   k, model_calls, steady>>
    /\ UNCHANGED <<helperVars, mcpVars, streamVars, twinVars, jsonVars, constructVars, shellVars, closureVars>>

\* the callable of request k raises
ToolRaises ==
    /\ pc = "tool"
    /\ Continue(Append(messages,
                       ErrorMessage(Dialect(agent), tool_calls[k], ToolFailure)),
                tool_calls, k + 1)
    /\ UNCHANGED <<agent, entry, caller, max_iterations, steady>>
    /\ UNCHANGED <<helperVars, mcpVars, streamVars, twinVars, jsonVars, constructVars, shellVars, closureVars>>

(* ------------------- the two entries, side by side --------------------- *)
\* a text cut in two after its first character, or left whole
Splits(text, fine) ==
    IF fine /\ Len(text) > 1
    THEN <<SubSeq(text, 1, 1), SubSeq(text, 2, Len(text))>>
    ELSE <<text>>

\* the chunks that carry one request of an OpenAI stream: its id and name
\* first and its argument text in pieces after them, or all in one fragment
RequestChunks(req, index, fine) ==
    IF fine
    THEN LET parts == Splits(req.arguments, TRUE)
         IN <<Chunk(None, None, <<Delta(index, req.id, req.name, "")>>)>> \o
            [j \in 1..Len(parts) |->
                Chunk(None, None, <<Delta(index, "", "", parts[j])>>)]
    ELSE <<Chunk(None, None, <<Delta(index, req.id, req.name, req.arguments)>>)>>

RECURSIVE CallChunks(_, _, _)
CallChunks(calls, from, fine) ==
    IF from > Len(calls) THEN <<>>
    ELSE RequestChunks(calls[from], from - 1, fine) \o CallChunks(calls, from + 1, fine)

\* the event stream the vendor sends for the assistant message r: the role
\* first, the content (when there is one) in pieces, then the requests; the
\* Ollama stream carries the role on every chunk and its requests whole
Fragmentation(a, r, fine) ==
    IF Dialect(a) = "openai"
    THEN <<Chunk(IF r.content = None THEN None ELSE "", "assistant", <<>>)>> \o
         (IF r.content = None THEN <<>>
          ELSE LET parts == Splits(r.content, fine)
               IN [j \in 1..Len(parts) |-> Chunk(parts[j], None, <<>>)]) \o
         CallChunks(r.tool_calls, 1, fine)
    ELSE LET parts == Splits(r.content, fine)
         IN [j \in 1..Len(parts) |-> Chunk(parts[j], "assistant", <<>>)] \o
            (IF r.tool_calls = <<>> THEN <<>>
             ELSE <<Chunk("", "assistant", r.tool_calls)>>)

\* run_with_streaming of the second agent: the dispatch loop over the
\* accumulated requests, and what follows it
StreamingContinue(msgs, calls, from) ==
    LET s == DispatchScan(Dialect(agent), Registry(agent), msgs, calls, from)
    IN /\ streaming_messages' = s.messages
       /\ streaming_result' =
             CASE s.at = "tool" -> streaming_result
               [] s.at = "parse_error" -> ApiError(JSONDecodeError)
               [] s.at = "end" -> IF i < max_iterations THEN streaming_result
                                  ELSE SENTINEL

\* run_with_streaming of the second agent: the accumulated message is
\* appended; without tool calls full_content is returned
StreamingHasModelReply(msg, returned) ==
    IF msg.tool_calls = <<>>
    THEN /\ streaming_messages' = Append(streaming_messages, msg)
         /\ streaming_result' = returned
    ELSE StreamingContinue(Append(streaming_messages, msg), msg.tool_calls, 1)

\* run(question) on the first agent, run_with_streaming(question) on the second
TwinRun(n) ==
    /\ pc = "idle"
    /\ entry' = "run"
    /\ max_iterations' = n
    /\ messages' = Append(messages, UserMessage("question"))
    /\ streaming_messages' = Append(streaming_messages, UserMessage("question"))
    /\ streaming_result' = IF n = 0 THEN SENTINEL ELSE streaming_result
    /\ LoopHead(0, n)
    /\ UNCHANGED <<agent, caller, tool_calls, k, steady>>
    /\ UNCHANGED <<helperVars, mcpVars, streamVars, jsonVars, constructVars, shellVars, closureVars>>

\* the model answers both agents with the same assistant message: whole to
\* the first, as an event stream to the second
TwinModelReplies ==
    /\ pc = "model"
    /\ \E r \in WholeReplies(agent, model_calls), fine \in BOOLEAN :
          LET fin == Accumulate(agent, Fragmentation(agent, r, fine))
          IN /\ HasModelReply(AssistantMessage("assistant", r.content, r.tool_calls),
                              IF Dialect(agent) = "openai" /\ r.content = None
                              THEN "" ELSE r.content)
             /\ StreamingHasModelReply(
                    AssistantMessage(fin.role, fin.content, fin.tool_calls),
                    fin.content)
    /\ UNCHANGED <<agent, entry, caller, max_iterations>>
    /\ UNCHANGED <<helperVars, mcpVars, streamVars, jsonVars, constructVars, shellVars, closureVars>>

\* the callable of request k returns the same to both agents
TwinToolReturns ==
    /\ pc = "tool"
    /\ Continue(Append(messages,
                       OutputMessage(Dialect(agent), tool_calls[k], ToolOutput)),
                tool_calls, k + 1)
    /\ StreamingContinue(Append(streaming_messages,
                                OutputMessage(Dialect(agent), tool_calls[k], ToolOutput)),
                         tool_calls, k + 1)
    /\ UNCHANGED <<agent, entry, caller, max_iterations, steady>>
    /\ UNCHANGED <<helperVars, mcpVars, streamVars, jsonVars, constructVars, shellVars, closureVars>>

\* the callable of request k raises in both agents
TwinToolRaises ==
    /\ pc = "tool"
    /\ Continue(Append(messages,
                       ErrorMessage(Dialect(agent), tool_calls[k], ToolFailure)),
                tool_calls, k + 1)
    /\ StreamingContinue(Append(streaming_messages,
                                ErrorMessage(Dialect(agent), tool_calls[k], ToolFailure)),
                         tool_calls, k + 1)
    /\ UNCHANGED <<agent, entry, caller, max_iterations, steady>>
    /\ UNCHANGED <<helperVars, mcpVars, streamVars, jsonVars, constructVars, shellVars, closureVars>>

(* ----------------------- run_agent_with_question ---------------------- *)
\* str() of a content value
Str(x) == IF x = None THEN "None" ELSE x

\* the fallback of a message that make_serializable raised on: role, str of
\* content, str of tool_calls, str of name; tool_call_id is not copied
BasicMessage(m) ==
    [role |-> m.role, content |-> Str(m.content), tool_calls |-> m.tool_calls,
     tool_call_id |-> Absent, name |-> m.name]

\* mutant of Serialized: a message make_serializable raised on is skipped
SerializedDropping(msgs, bad) ==
    LET kept == SelectSeq([n \in 1..Len(msgs) |-> n], LAMBDA n : n \notin bad)
    IN [j \in 1..Len(kept) |-> msgs[kept[j]]]

\* the loop over agent.messages: each message serialized, or replaced by its
\* basic form when make_serializable raised on it
Serialized(msgs, bad) ==
    [n \in 1..Len(msgs) |-> IF n \in bad THEN BasicMessage(msgs[n]) ELSE msgs[n]]

\* the agent's run has returned: the history is made serializable
HelperSerialize ==
    /\ caller = "helper" /\ pc = "returned"
    /\ \E bad \in {{}} \cup {{n} : n \in 1..Len(messages)} :
          serializable_messages' = Serialized(messages, bad)
    /\ pc' = "serialized"
    /\ UNCHANGED <<agent, entry, caller, messages, max_iterations, i, tool_calls,
                   k, result, model_calls, steady, messages_file, ret>>
    /\ UNCHANGED <<mcpVars, streamVars, twinVars, jsonVars, constructVars, shellVars, closureVars>>

\* the messages file is left alone (save_messages false), written in full,
\* rewritten in the simplified form when the dump failed, or left partial
\* when that failed too; then the pair is returned
HelperSave ==
    /\ caller = "helper" /\ pc = "serialized"
    /\ messages_file' \in {messages_file, "full", "simplified", "partial"}
    /\ ret' = <<result, serializable_messages>>
    /\ pc' = "helper_returned"
    /\ UNCHANGED <<agent, entry, caller, messages, max_iterations, i, tool_calls,
                   k, result, model_calls, steady, serializable_messages>>
    /\ UNCHANGED <<mcpVars, streamVars, twinVars, jsonVars, constructVars, shellVars, closureVars>>

(* --------------------- make_serializable and the file ------------------ *)
\* a Python object held in a message: its type, what str() gives for it,
\* its __dict__ when it has one, and what its to_dict() returns when it has
\* that method (both as key/value pairs of strings)
PyObject(type, text, has_dict, dict, has_to_dict, to_dict) ==
    [type |-> type, text |-> text, has_dict |-> has_dict, dict |-> dict,
     has_to_dict |-> has_to_dict, to_dict |-> to_dict]

PyText(text) == PyObject("str", text, FALSE, <<>>, FALSE, <<>>)
PyNone == PyObject("NoneType", "None", FALSE, <<>>, FALSE, <<>>)
PyDict(pairs) == PyObject("dict", "", FALSE, pairs, FALSE, <<>>)

\* objects json has no representation for: a set (no attributes), an instance
\* of a class (it has a __dict__), an instance of a class with __slots__ and
\* a to_dict method
PlainObject == PyObject("set", "{1, 2}", FALSE, <<>>, FALSE, <<>>)
AttrObject ==
    PyObject("Probe", "<Probe object>", TRUE, <<[key |-> "x", value |-> "a"]>>,
             FALSE, <<>>)
ToDictObject ==
    PyObject("Slotted", "<Slotted object>", FALSE, <<>>,
             TRUE, <<[key |-> "y", value |-> "b"]>>)

ContentObjects == {PyText("hi"), PyNone, PlainObject, AttrObject, ToDictObject}

\* make_serializable(obj): a dict is rebuilt (its values are strings), an
\* object with a __dict__ becomes that dict, one with to_dict() becomes what
\* it returns, anything else is kept when json.dumps takes it and replaced by
\* str(obj) when it does not
MakeSerializable(obj) ==
    IF obj.type = "dict" THEN obj
    ELSE IF obj.has_dict THEN PyDict(obj.dict)
    ELSE IF obj.has_to_dict THEN PyDict(obj.to_dict)
    ELSE IF obj.type \in {"str", "NoneType"} THEN obj
    ELSE PyText(obj.text)

\* json.dumps of a value json has a representation for
JsonDumps(obj) ==
    CASE obj.type = "str" -> "\"" \o obj.text \o "\""
      [] obj.type = "NoneType" -> "null"
      [] obj.type = "dict" ->
            "{" \o JoinWith(", ", [j \in 1..Len(obj.dict) |->
                                      "\"" \o obj.dict[j].key \o "\": \"" \o
                                      obj.dict[j].value \o "\""]) \o "}"

\* the positions of the double quotes of a text, in order
Quotes(text) ==
    LET at == {j \in 1..Len(text) : SubSeq(text, j, j) = "\""}
    IN [n \in 1..Cardinality(at) |->
          CHOOSE j \in at : Cardinality({h \in at : h <= j}) = n]

\* json.loads of a text: null, a string, or an object of string members
JsonLoad(text) ==
    IF text = "null" THEN PyNone
    ELSE IF SubSeq(text, 1, 1) = "\"" THEN PyText(SubSeq(text, 2, Len(text) - 1))
    ELSE LET q == Quotes(text)
         IN PyDict([n \in 1..(Len(q) \div 4) |->
                      [key |-> SubSeq(text, q[4 * n - 3] + 1, q[4 * n - 2] - 1),
                       value |-> SubSeq(text, q[4 * n - 1] + 1, q[4 * n] - 1)]])

\* the loop over agent.messages: every message, a dict of role and content,
\* made serializable key by key
SerializeMessages ==
    /\ pc = "returned" /\ caller = "serializer"
    /\ serializable_messages' =
          [p \in 1..Len(messages) |->
              [role |-> MakeSerializable(messages[p].role),
               content |-> MakeSerializable(messages[p].content)]]
    /\ pc' = "serialized"
    /\ UNCHANGED <<agent, entry, caller, messages, max_iterations, i, tool_calls,
                   k, result, model_calls, steady, messages_file, ret>>
    /\ UNCHANGED <<mcpVars, streamVars, twinVars, jsonVars, constructVars, shellVars, closureVars>>

\* json.dump(serializable_messages, f): the text of every member is written
SaveMessages ==
    /\ pc = "serialized" /\ caller = "serializer"
    /\ messages_file' =
          [p \in 1..Len(serializable_messages) |->
              [role |-> JsonDumps(serializable_messages[p].role),
               content |-> JsonDumps(serializable_messages[p].content)]]
    /\ ret' = <<result, serializable_messages>>
    /\ pc' = "helper_returned"
    /\ UNCHANGED <<agent, entry, caller, messages, max_iterations, i, tool_calls,
                   k, result, model_calls, steady, serializable_messages>>
    /\ UNCHANGED <<mcpVars, streamVars, twinVars, jsonVars, constructVars, shellVars, closureVars>>

\* json.load of the messages file
LoadMessages ==
    /\ pc = "helper_returned" /\ caller = "serializer"
    /\ loaded = <<>>
    /\ loaded' =
          [p \in 1..Len(messages_file) |->
              [role |-> JsonLoad(messages_file[p].role),
               content |-> JsonLoad(messages_file[p].content)]]
    /\ UNCHANGED <<agentVars, helperVars, mcpVars, streamVars, twinVars,
                   constructVars, shellVars, closureVars>>

(* ------------------------ execute_shell_command ------------------------ *)
\* most calls of execute_shell_command in one behaviour
MaxShellCalls == 2

\* the commands and working directories a call is given (None: the current
\* working directory)
Commands == {"ls", "sleep 60"}
WorkingDirectories == {None, "/tmp", "/missing"}
\* the directories that exist
Directories == {"/tmp"}

ShellCall(command, working_directory) ==
    [command |-> command, working_directory |-> working_directory]

NoShellCall == ShellCall(None, None)

\* how a call ends: it raises, or returns the dict of stdout, stderr,
\* return_code and success
ShellOutcome(raised, stdout, stderr, return_code, success) ==
    [raised |-> raised, stdout |-> stdout, stderr |-> stderr,
     return_code |-> return_code, success |-> success]

\* `if working_directory and not os.path.isdir(working_directory)`
DirectoryNotFound(working_directory) ==
    ShellOutcome(FALSE, "", "Error: Directory '" \o working_directory \o "' not found.",
                 1, FALSE)

\* the dict built from the CompletedProcess
Completed(stdout, stderr, returncode) ==
    ShellOutcome(FALSE, stdout, stderr, returncode, returncode = 0)

\* mutant of TimeoutExpired: the exception is not caught
TimeoutExpiredUncaught ==
    ShellOutcome(TRUE, "", "", 0, FALSE)

\* `except subprocess.TimeoutExpired`
TimeoutExpired ==
    ShellOutcome(FALSE, "", "Error: Command timed out after 30 seconds.", 124, FALSE)

\* what subprocess.run may raise besides TimeoutExpired
RunErrors == {"[Errno 12] Cannot allocate memory", "embedded null byte"}

\* `except Exception as e`
OtherException(e) ==
    ShellOutcome(FALSE, "", "Error executing command: " \o e, 1, FALSE)

\* the return codes and the captured output of a command that ends in time
ReturnCodes == {0, 1, 127}
Outputs == {"", "text"}

\* execute_shell_command(command, working_directory) up to subprocess.run
ExecuteShellCommand(command, working_directory) ==
    /\ shell_pc = "idle"
    /\ Len(shell_outcomes) < MaxShellCalls
    /\ shell_call' = ShellCall(command, working_directory)
    /\ IF working_directory # None /\ working_directory \notin Directories
       THEN /\ shell_outcomes' =
                  Append(shell_outcomes, DirectoryNotFound(working_directory))
            /\ shell_pc' = "idle"
       ELSE /\ shell_pc' = "running"
            /\ UNCHANGED shell_outcomes
    /\ UNCHANGED <<agentVars, helperVars, mcpVars, streamVars, twinVars, jsonVars,
                   constructVars, closureVars>>

\* subprocess.run returns within the 30 seconds
CommandCompletes ==
    /\ shell_pc = "running"
    /\ \E stdout \in Outputs, stderr \in Outputs, returncode \in ReturnCodes :
          shell_outcomes' =
              Append(shell_outcomes, Completed(stdout, stderr, returncode))
    /\ shell_pc' = "idle"
    /\ UNCHANGED shell_call
    /\ UNCHANGED <<agentVars, helperVars, mcpVars, streamVars, twinVars, jsonVars,
                   constructVars, closureVars>>

\* the command still runs after 30 seconds: subprocess.run raises
\* TimeoutExpired
CommandTimesOut ==
    /\ shell_pc = "running"
    /\ shell_outcomes' = Append(shell_outcomes, TimeoutExpired)
    /\ shell_pc' = "idle"
    /\ UNCHANGED shell_call
    /\ UNCHANGED <<agentVars, helperVars, mcpVars, streamVars, twinVars, jsonVars,
                   constructVars, closureVars>>

\* subprocess.run raises another exception
CommandFails ==
    /\ shell_pc = "running"
    /\ \E e \in RunErrors :
          shell_outcomes' = Append(shell_outcomes, OtherException(e))
    /\ shell_pc' = "idle"
    /\ UNCHANGED shell_call
    /\ UNCHANGED <<agentVars, helperVars, mcpVars, streamVars, twinVars, jsonVars,
                   constructVars, closureVars>>

(* ------------------------ MCP protocol client -------------------------- *)
\* server names an agent may be given, one a "_"-prefix of the other
ServerNames == {"fs", "fs_x"}
\* tool names a server may announce
ToolNames == {"read", "x_read"}

\* tool_name = f"{server_name}_{tool['name']}"
Namespaced(server, tool) == server \o "_" \o tool

\* str.startswith
StartsWith(s, prefix) ==
    Len(s) >= Len(prefix) /\ SubSeq(s, 1, Len(prefix)) = prefix

\* dict.update / dict item assignment
Update(f, g) ==
    [x \in DOMAIN f \cup DOMAIN g |-> IF x \in DOMAIN g THEN g[x] ELSE f[x]]

\* mutant of Without: nothing is deleted
WithoutKept(f, keys) == f

\* del d[key] for every key in keys
Without(f, keys) == [x \in DOMAIN f \ keys |-> f[x]]

\* one fixed iteration order of the catalogue's keys
CatalogueOrder ==
    <<"fs_read", "fs_x_read", "fs_x_x_read">>

\* what a server may answer to initialize: a result, an error, or a line that
\* is no JSON (also the empty line of a closed pipe)
InitResponses == {"result", "error", "garbage"}

\* what a server may answer to tools/list
ListResponses ==
    {[kind |-> "result", tools |-> ts] : ts \in SUBSET ToolNames} \cup
    {[kind |-> "error", tools |-> {}], [kind |-> "garbage", tools |-> {}]}

\* a line on a child's stdout: the request of its connection it answers
\* (re, 0 for a line that answers none), its kind, and for a result the key
\* its result object carries, with the tools or the content array
Line(re, kind, shape, ts, content) ==
    [re |-> re, kind |-> kind, shape |-> shape, tools |-> ts, content |-> content]

\* the server's response line to initialize (request 1 of the connection)
InitLine(resp) ==
    Line(1, resp, IF resp = "result" THEN "plain" ELSE "none", {}, <<>>)

\* the server's response line to tools/list (request 2 of the connection)
ListLine(resp) ==
    Line(2, resp.kind, IF resp.kind = "result" THEN "tools" ELSE "none",
         resp.tools, <<>>)

\* a JSON-RPC notification: a line with neither result nor error
NotificationLine == Line(0, "notification", "none", {}, <<>>)

\* process.stdout.readline(): the oldest unread line; `response` is the line
\* the server writes in answer to the request just sent
Consumed(unread, response) == IF unread # <<>> THEN Head(unread) ELSE response

\* what stays unread after that readline
Unread(unread, response) ==
    IF unread # <<>> THEN Append(Tail(unread), response) ELSE <<>>

\* mutant of ReadLine: the response line is not read
ReadLineSkipped(w, line) == w

\* the record of one readline on the connection
ReadLine(w, line) == Append(w, "r:" \o line.kind)

\* the requests written on a connection (the notification is not a request)
RequestWrites == {"w:initialize", "w:tools/list", "w:tools/call"}

\* how many requests have been written on a connection
Requests(w) == Cardinality({j \in 1..Len(w) : w[j] \in RequestWrites})

\* the record of a consumed line: the request awaited, the request the line
\* answers, and what the line carried (for a tools/list result its tools)
Answered(a, w, line) ==
    Append(a, [request |-> Requests(w), line |-> line.re,
               kind |-> line.kind, shape |-> line.shape, tools |-> line.tools])

\* mutant of InitializeRejected: the error field is not looked at
InitializeRejectedIgnored(resp) == FALSE

\* `if "error" in response: return` of _initialize_server
InitializeRejected(resp) == resp = "error"

\* the entries _get_tools adds for a tools/list result
ServerTools(name, ts) ==
    [n \in {Namespaced(name, t) : t \in ts} |->
        CHOOSE e \in {[server |-> name, original_name |-> t] : t \in ts} :
            Namespaced(name, e.original_name) = n]

\* an entry of tool_definitions
ToolDefinition(name, source) == [name |-> name, source |-> source]

\* mutant of Outcome: the operation reports success whatever happened
OutcomeOfSuccess(o, name, returned, handshake) ==
    [op |-> o, name |-> name, returned |-> "True", handshake |-> handshake]

\* what an operation of the client came to: its name and argument, the value
\* it returned, and how far its handshake got
Outcome(o, name, returned, handshake) ==
    [op |-> o, name |-> name, returned |-> returned, handshake |-> handshake]

\* start_server has returned True; add_mcp_server then registers the tools of
\* the catalogue whose name starts with f"{name}_"
StartReturns(o, name, hs, catalogue) ==
    /\ mpc' = "idle"
    /\ op' = None
    /\ cur' = None
    /\ last' = Outcome(o, name, "True", hs)
    /\ IF o = "add_mcp_server"
       THEN LET new == {n \in DOMAIN catalogue : StartsWith(n, name \o "_")}
                names == SelectSeq(CatalogueOrder, LAMBDA n : n \in new)
            IN /\ tool_definitions' =
                    tool_definitions \o
                    [j \in 1..Len(names) |->
                        ToolDefinition(names[j], catalogue[names[j]].server)]
               /\ tool_callables' =
                    Update(tool_callables, [n \in new |-> catalogue[n].server])
       ELSE UNCHANGED <<tool_definitions, tool_callables>>

\* MCPClient.start_server up to the read of the initialize response.  An
\* unknown name or a failed spawn returns False; otherwise the process is
\* spawned, recorded under the name, and the initialize request written.  A
\* child that exits at once shows as the empty line read next.
BeginStart(o, name, known) ==
    /\ servers' = known
    /\ UNCHANGED <<tools, todo, ignoring, call_request>>
    /\ \/ /\ name \notin known
          /\ mpc' = "idle"
          /\ UNCHANGED <<op, cur>>
          /\ last' = Outcome(o, name, "False", "none")
          /\ UNCHANGED <<processes, spawned, alive, wire, tool_definitions,
                         tool_callables, signals, pipe, answers>>
       \/ /\ name \in known
          /\ \/ \* create_subprocess_exec raises
                /\ mpc' = "idle"
                /\ UNCHANGED <<op, cur>>
                /\ last' = Outcome(o, name, "False", "nospawn")
                /\ UNCHANGED <<processes, spawned, alive, wire, tool_definitions,
                               tool_callables, signals, pipe, answers>>
             \/ \* spawned; initialize written (into the pipe of the new child)
                /\ spawned' = Append(spawned, name)
                /\ alive' = alive \cup {Len(spawned) + 1}
                /\ processes' = Update(processes, [x \in {name} |-> Len(spawned) + 1])
                /\ wire' = Append(wire, <<"w:initialize">>)
                /\ signals' = signals
                /\ pipe' = Append(pipe, <<>>)
                /\ answers' = Append(answers, <<>>)
                /\ mpc' = "init_read"
                /\ op' = o
                /\ cur' = name
                /\ UNCHANGED <<last, tool_definitions, tool_callables>>

\* most child processes spawned in one behaviour
MaxSpawns == 2

\* MCPManager.start_server(name)
StartServer(name) ==
    /\ mpc = "idle" /\ Len(spawned) < MaxSpawns
    /\ BeginStart("start_server", name, servers)
    /\ UNCHANGED <<agentVars, helperVars, streamVars, twinVars, jsonVars, constructVars, shellVars, closureVars>>

\* OpenAIAgentWithMCP.add_mcp_server(name, ...): the server is configured
\* (in a new manager or the existing one) and started
AddMcpServer(name) ==
    /\ mpc = "idle" /\ Len(spawned) < MaxSpawns
    /\ BeginStart("add_mcp_server", name, servers \cup {name})
    /\ UNCHANGED <<agentVars, helperVars, streamVars, twinVars, jsonVars, constructVars, shellVars, closureVars>>

\* _initialize_server from the read of the initialize response on
InitResponse ==
    /\ mpc = "init_read"
    /\ \E resp \in InitResponses, written \in 0..2 :
          LET pid == processes[cur]
              line == Consumed(pipe[pid], InitLine(resp))
              read == ReadLine(wire[pid], line)
          IN /\ pipe' = [pipe EXCEPT ![pid] = Unread(@, InitLine(resp))]
             /\ answers' = [answers EXCEPT ![pid] = Answered(@, wire[pid], line)]
             /\ IF line.kind = "garbage" \/ InitializeRejected(line.kind)
                THEN /\ written = 0
                     /\ wire' = [wire EXCEPT ![pid] = read]
                     /\ alive' = alive
                     /\ StartReturns(op, cur, "failed", tools)
                ELSE \/ \* the child has exited: the write of the notification raises
                        /\ written = 0
                        /\ wire' = [wire EXCEPT ![pid] = read]
                        /\ alive' = alive \ {pid}
                        /\ StartReturns(op, cur, "failed", tools)
                     \/ \* the child has exited: the write of tools/list raises
                        /\ written = 1
                        /\ wire' = [wire EXCEPT ![pid] =
                                       Append(read, "w:notifications/initialized")]
                        /\ alive' = alive \ {pid}
                        /\ StartReturns(op, cur, "failed", tools)
                     \/ /\ written = 2
                        /\ wire' = [wire EXCEPT ![pid] =
                                       read \o <<"w:notifications/initialized",
                                                 "w:tools/list">>]
                        /\ alive' = alive
                        /\ mpc' = "list_read"
                        /\ UNCHANGED <<op, cur, last, tool_definitions, tool_callables>>
    /\ UNCHANGED <<servers, processes, tools, spawned, todo, signals, ignoring, call_request>>
    /\ UNCHANGED <<agentVars, helperVars, streamVars, twinVars, jsonVars, constructVars, shellVars, closureVars>>

\* _get_tools from the read of the tools/list response on
ListResponse ==
    /\ mpc = "list_read"
    /\ \E resp \in ListResponses :
          LET pid == processes[cur]
              line == Consumed(pipe[pid], ListLine(resp))
              listed == line.kind = "result" /\ line.shape = "tools"
              catalogue == IF listed
                           THEN Update(tools, ServerTools(cur, line.tools))
                           ELSE tools
          IN /\ wire' = [wire EXCEPT ![pid] = ReadLine(@, line)]
             /\ pipe' = [pipe EXCEPT ![pid] = Unread(@, ListLine(resp))]
             /\ answers' = [answers EXCEPT ![pid] = Answered(@, wire[pid], line)]
             /\ tools' = catalogue
             /\ StartReturns(op, cur, IF listed THEN "ok" ELSE "failed", catalogue)
    /\ UNCHANGED <<servers, processes, spawned, alive, todo, signals, ignoring, call_request>>
    /\ UNCHANGED <<agentVars, helperVars, streamVars, twinVars, jsonVars, constructVars, shellVars, closureVars>>

\* stop_server up to the wait: process.terminate().  A child that has exited
\* already cannot be signalled (terminate raises, and so does the kill of the
\* handler).  A child that is signalled either exits within the grace period
\* or does not.
BeginStop(o, name, rest) ==
    LET pid == processes[name]
    IN /\ op' = o
       /\ cur' = name
       /\ todo' = rest
       /\ mpc' = "stop_wait"
       /\ IF pid \in alive
          THEN /\ signals' = <<"terminate">>
               /\ \E ignores \in BOOLEAN : ignoring' = IF ignores THEN {pid} ELSE {}
          ELSE /\ signals' = <<>>
               /\ ignoring' = {}

\* MCPManager.stop_server(name): nothing to do for a name with no process
StopServer(name) ==
    /\ mpc = "idle"
    /\ IF name \in DOMAIN processes
       THEN BeginStop("stop_server", name, {}) /\ UNCHANGED last
       ELSE /\ last' = Outcome("stop_server", name, None, "none")
            /\ UNCHANGED <<op, cur, todo, mpc, signals, ignoring>>
    /\ UNCHANGED <<servers, processes, tools, spawned, alive, wire,
                   tool_definitions, tool_callables, pipe, answers, call_request>>
    /\ UNCHANGED <<agentVars, helperVars, streamVars, twinVars, jsonVars, constructVars, shellVars, closureVars>>

\* MCPManager.stop_all_servers(): stop_server for each key of processes
StopAllServers ==
    /\ mpc = "idle"
    /\ IF DOMAIN processes = {}
       THEN /\ last' = Outcome("stop_all_servers", None, None, "none")
            /\ UNCHANGED <<op, cur, todo, mpc, signals, ignoring>>
       ELSE /\ \E name \in DOMAIN processes :
                 BeginStop("stop_all_servers", name, DOMAIN processes \ {name})
            /\ UNCHANGED last
    /\ UNCHANGED <<servers, processes, tools, spawned, alive, wire,
                   tool_definitions, tool_callables, pipe, answers, call_request>>
    /\ UNCHANGED <<agentVars, helperVars, streamVars, twinVars, jsonVars, constructVars, shellVars, closureVars>>

\* mutant of GraceExpires: the kill does not wait for the grace period
GraceExpiresAtOnce(pid) == TRUE

\* asyncio.wait_for(process.wait(), timeout=3.0) raises TimeoutError: the
\* child has not exited by the end of the grace period
GraceExpires(pid) == pid \in ignoring

\* the grace period is over and the child still runs: process.kill()
GraceExpired ==
    /\ mpc = "stop_wait"
    /\ processes[cur] \in alive
    /\ GraceExpires(processes[cur])
    /\ signals' = Append(signals, "kill")
    /\ mpc' = "kill_wait"
    /\ UNCHANGED <<servers, processes, tools, spawned, alive, wire, op, cur, todo,
                   last, tool_definitions, tool_callables, ignoring, pipe, answers,
                   call_request>>
    /\ UNCHANGED <<agentVars, helperVars, streamVars, twinVars, jsonVars, constructVars, shellVars, closureVars>>

\* process.wait() has returned (the child exited within the grace period, or
\* was killed after it): its handle and its tools are removed;
\* stop_all_servers goes on to the next name
Stopped ==
    /\ \/ mpc = "stop_wait" /\ processes[cur] \notin ignoring
       \/ mpc = "kill_wait"
    /\ alive' = alive \ {processes[cur]}
    /\ processes' = Without(processes, {cur})
    /\ tools' = Without(tools, {n \in DOMAIN tools : tools[n].server = cur})
    /\ IF todo = {}
       THEN /\ mpc' = "idle"
            /\ last' = Outcome(op, cur, None, "none")
            /\ op' = None
            /\ cur' = None
            /\ ignoring' = {}
            /\ signals' = <<>>
            /\ UNCHANGED todo
       ELSE /\ \E name \in todo : BeginStop(op, name, todo \ {name})
            /\ UNCHANGED last
    /\ UNCHANGED <<servers, spawned, wire, tool_definitions, tool_callables,
                   pipe, answers, call_request>>
    /\ UNCHANGED <<agentVars, helperVars, streamVars, twinVars, jsonVars, constructVars, shellVars, closureVars>>

\* the tools the agent was constructed with (the tool_definitions and
\* tool_callables arguments)
LocalTools == {"read_file"}

(* ------------------------------ call_tool ------------------------------ *)
\* most tools/call requests written in one behaviour
MaxToolCalls == 2
\* most elements in the content array of a tools/call result
MaxContent == 2

\* the arguments a tool is called with
Arguments == {"{}", "{'path': 'a'}"}

\* the elements of a content array
ContentElements ==
    {[type |-> "text", text |-> "a"], [type |-> "text", text |-> "b"],
     [type |-> "image", text |-> ""]}

\* the message of a JSON-RPC error object
RpcErrorMessage == "denied"

\* what a server may answer to tools/call: a result with a content array, a
\* result without one, an error, a JSON line with neither, a line that is no
\* JSON
CallResponses ==
    {[kind |-> "result", shape |-> "content", content |-> c] :
        c \in {<<>>} \cup SeqsUpTo(ContentElements, MaxContent)} \cup
    {[kind |-> "result", shape |-> "plain", content |-> <<>>],
     [kind |-> "error", shape |-> "none", content |-> <<>>],
     [kind |-> "notification", shape |-> "none", content |-> <<>>],
     [kind |-> "garbage", shape |-> "none", content |-> <<>>]}

\* responses to tools/call that lack a field the client reads: a content
\* element without "type", an error object without "message"
MalformedResponses ==
    {[kind |-> "result", shape |-> "untyped",
      content |-> <<[type |-> Absent, text |-> "a"]>>],
     [kind |-> "error", shape |-> "bare", content |-> <<>>]}

\* str(KeyError(key))
KeyError(key) == "'" \o key \o "'"

\* the server's response line to the tools/call that is request n
CallLine(n, resp) == Line(n, resp.kind, resp.shape, {}, resp.content)

NoLine == Line(0, "none", "none", {}, <<>>)

\* a call_tool: the name and arguments it was given, the child it wrote to,
\* the params of the request it wrote, the line it read
Call(tool, given, pid, name, arguments, line) ==
    [tool |-> tool, given |-> given, pid |-> pid, name |-> name,
     arguments |-> arguments, line |-> line]

NoCall == Call(None, None, 0, None, None, NoLine)

\* mutant of ContentParts: every element contributes its text
ContentPartsOfAnyType(parts, content) ==
    parts \o [j \in 1..Len(content) |-> content[j].text]

\* the loop over response["result"]["content"]: content_parts
RECURSIVE ContentParts(_, _)
ContentParts(parts, content) ==
    IF content = <<>> THEN parts
    ELSE ContentParts(IF Head(content).type = "text"
                      THEN Append(parts, Head(content).text) ELSE parts,
                      Tail(content))

\* "\n".join(content_parts)
RECURSIVE Join(_)
Join(parts) ==
    IF parts = <<>> THEN ""
    ELSE IF Len(parts) = 1 THEN parts[1]
    ELSE parts[1] \o "\n" \o Join(Tail(parts))

\* str(response["result"]) of a result object without content
ResultStr(line) ==
    IF line.shape = "tools" THEN "{'tools': [...]}" ELSE "{'ok': True}"

\* mutant of CallToolResult: the exceptions of the exchange are not caught,
\* so call_tool returns no value for a line that is no JSON or lacks a field
CallToolResultUncaught(line) ==
    IF line.kind = "garbage" THEN None
    ELSE IF line.kind = "result"
         THEN IF line.shape = "untyped" THEN None
              ELSE IF line.shape = "content" THEN Join(ContentParts(<<>>, line.content))
              ELSE ResultStr(line)
    ELSE IF line.kind = "error"
         THEN IF line.shape = "bare" THEN None
              ELSE "Tool error: " \o RpcErrorMessage
    ELSE "Unknown response format"

\* what call_tool returns for the line it read; a KeyError of content["type"]
\* or response["error"]["message"] is caught as every other exception is
CallToolResult(line) ==
    IF line.kind = "garbage" THEN "Error calling tool: " \o JSONDecodeError
    ELSE IF line.kind = "result"
         THEN IF line.shape = "untyped" THEN "Error calling tool: " \o KeyError("type")
              ELSE IF line.shape = "content" THEN Join(ContentParts(<<>>, line.content))
              ELSE ResultStr(line)
    ELSE IF line.kind = "error"
         THEN IF line.shape = "bare" THEN "Error calling tool: " \o KeyError("message")
              ELSE "Tool error: " \o RpcErrorMessage
    ELSE "Unknown response format"

\* tools/call requests written so far
CallsWritten ==
    Cardinality(UNION {{<<pid, j>> : j \in {j \in 1..Len(wire[pid]) :
                                              wire[pid][j] = "w:tools/call"}} :
                       pid \in 1..Len(wire)})

\* MCPManager.call_tool(tool, arguments) up to the read of the response
CallTool(tool, arguments) ==
    /\ mpc = "idle"
    /\ IF tool \notin DOMAIN tools
       THEN /\ last' = Outcome("call_tool", tool,
                               "Error: Tool '" \o tool \o "' not found", "none")
            /\ call_request' = Call(tool, arguments, 0, None, None, NoLine)
            /\ UNCHANGED <<wire, alive, mpc, op, cur>>
       ELSE IF tools[tool].server \notin DOMAIN processes
       THEN /\ last' = Outcome("call_tool", tool,
                               "Error: Server '" \o tools[tool].server \o "' not running",
                               "none")
            /\ call_request' = Call(tool, arguments, 0, None, None, NoLine)
            /\ UNCHANGED <<wire, alive, mpc, op, cur>>
       ELSE LET server == tools[tool].server
                pid == processes[server]
            IN \/ \* the child has exited: the write raises
                  /\ alive' = alive \ {pid}
                  /\ last' = Outcome("call_tool", tool,
                                     "Error calling tool: " \o ConnectionError, "none")
                  /\ call_request' = Call(tool, arguments, pid, None, None, NoLine)
                  /\ UNCHANGED <<wire, mpc, op, cur>>
               \/ /\ pid \in alive
                  /\ CallsWritten < MaxToolCalls
                  /\ wire' = [wire EXCEPT ![pid] = Append(@, "w:tools/call")]
                  /\ call_request' = Call(tool, arguments, pid, tools[tool].original_name,
                                  arguments, NoLine)
                  /\ mpc' = "call_read"
                  /\ op' = "call_tool"
                  /\ cur' = server
                  /\ UNCHANGED <<alive, last>>
    /\ UNCHANGED <<servers, processes, tools, spawned, todo, tool_definitions,
                   tool_callables, signals, ignoring, pipe, answers>>
    /\ UNCHANGED <<agentVars, helperVars, streamVars, twinVars, jsonVars, constructVars, shellVars, closureVars>>

\* call_tool from the read of the response on, for a response of `responses`
ReadCallResponse(responses) ==
    /\ mpc = "call_read"
    /\ \E resp \in responses :
          LET pid == call_request.pid
              response == CallLine(Requests(wire[pid]), resp)
              line == Consumed(pipe[pid], response)
          IN /\ wire' = [wire EXCEPT ![pid] = ReadLine(@, line)]
             /\ pipe' = [pipe EXCEPT ![pid] = Unread(@, response)]
             /\ answers' = [answers EXCEPT ![pid] = Answered(@, wire[pid], line)]
             /\ call_request' = [call_request EXCEPT !.line = line]
             /\ last' = Outcome("call_tool", call_request.tool, CallToolResult(line), "none")
    /\ mpc' = "idle"
    /\ op' = None
    /\ cur' = None
    /\ UNCHANGED <<servers, processes, tools, spawned, alive, todo, tool_definitions,
                   tool_callables, signals, ignoring>>
    /\ UNCHANGED <<agentVars, helperVars, streamVars, twinVars, jsonVars, constructVars, shellVars, closureVars>>

\* call_tool from the read of the response on
CallResponse == ReadCallResponse(CallResponses)

\* call_tool from the read of the response on, the response lacking a field
CallResponseMalformed == ReadCallResponse(MalformedResponses)

\* a server writes a notification (a log or progress message) to its stdout
\* while the client waits for the response to a request
ServerNotifies ==
    /\ mpc \in {"init_read", "list_read", "call_read"}
    /\ pipe[processes[cur]] = <<>>
    /\ pipe' = [pipe EXCEPT ![processes[cur]] = <<NotificationLine>>]
    /\ UNCHANGED <<servers, processes, tools, spawned, alive, wire, mpc, op, cur,
                   todo, last, tool_definitions, tool_callables, signals, ignoring,
                   answers, call_request>>
    /\ UNCHANGED <<agentVars, helperVars, streamVars, twinVars, jsonVars, constructVars, shellVars, closureVars>>

(* ------------------- OpenAIAgentWithMCP.__init__ ----------------------- *)
\* what a caller passes as tool_definitions and tool_callables: nothing (or
\* an empty list and dict), or its local tool
ArgToolDefinitions == {<<>>, <<ToolDefinition("read_file", "local")>>}
ArgToolCallables == {<<>>, [n \in LocalTools |-> "local"]}

\* get_tool_definitions / get_tool_callables: one entry per catalogue entry
McpToolDefinitions(catalogue) ==
    LET names == SelectSeq(CatalogueOrder, LAMBDA n : n \in DOMAIN catalogue)
    IN [j \in 1..Len(names) |-> ToolDefinition(names[j], catalogue[names[j]].server)]

McpCallables(catalogue) == [n \in DOMAIN catalogue |-> catalogue[n].server]

\* `self.tool_definitions = tool_definitions or []`: the agent's list is the
\* caller's list object when that is not empty, a new list otherwise
SameList == phase = "constructed" /\ arg_tool_definitions # <<>>
\* `self.tool_callables = tool_callables or {}`, likewise
SameDict == phase = "constructed" /\ arg_tool_callables # <<>>

\* the caller's list and dict as the caller sees them now
CallerToolDefinitions ==
    IF SameList THEN tool_definitions ELSE arg_tool_definitions
CallerToolCallables ==
    IF SameDict THEN tool_callables ELSE arg_tool_callables

\* mutant of Reached: the loop stops at the first start that did not return
\* True with its handshake done
ReachedUntilFailure(left, returned) ==
    IF returned.op = "__init__" /\ returned.handshake # "ok" THEN {} ELSE left

\* the names the loop of _start_mcp_servers still goes to after a start has
\* returned (or raised)
Reached(left, returned) == left

\* one iteration of `for server_name in self.mcp_manager.client.servers`:
\* start_server(server_name)
ConstructStart(name) ==
    /\ phase = "starting" /\ mpc = "idle"
    /\ name \in Reached(pending, last)
    /\ pending' = pending \ {name}
    /\ attempted' = attempted \cup {name}
    /\ BeginStart("__init__", name, servers)
    /\ UNCHANGED <<phase, arg_tool_definitions, arg_tool_callables>>
    /\ UNCHANGED <<agentVars, helperVars, streamVars, twinVars, jsonVars, shellVars, closureVars>>

\* the loop is over (or there was no configuration): the agent's list and
\* dict are bound, and the catalogue's tools added to them
ConstructRegister ==
    /\ phase = "starting" /\ mpc = "idle"
    /\ Reached(pending, last) = {}
    /\ phase' = "constructed"
    /\ IF servers # {}
       THEN /\ tool_definitions' = arg_tool_definitions \o McpToolDefinitions(tools)
            /\ tool_callables' = Update(arg_tool_callables, McpCallables(tools))
       ELSE /\ tool_definitions' = arg_tool_definitions
            /\ tool_callables' = arg_tool_callables
    /\ UNCHANGED <<servers, processes, tools, spawned, alive, wire, mpc, op, cur,
                   todo, last, signals, ignoring, pipe, answers, call_request>>
    /\ UNCHANGED <<pending, attempted, arg_tool_definitions, arg_tool_callables>>
    /\ UNCHANGED <<agentVars, helperVars, streamVars, twinVars, jsonVars, shellVars, closureVars>>

\* add_mcp_server on the constructed agent
AddMcpServerLater(name) ==
    /\ phase = "constructed"
    /\ AddMcpServer(name)

McpInit ==
    /\ servers \in SUBSET ServerNames
    /\ processes = <<>>
    /\ tools = <<>>
    /\ spawned = <<>>
    /\ alive = {}
    /\ wire = <<>>
    /\ mpc = "idle"
    /\ op = None
    /\ cur = None
    /\ todo = {}
    /\ last = Outcome(None, None, None, "none")
    /\ tool_definitions = <<ToolDefinition("read_file", "local")>>
    /\ tool_callables = [n \in LocalTools |-> "local"]
    /\ signals = <<>>
    /\ ignoring = {}
    /\ pipe = <<>>
    /\ answers = <<>>
    /\ call_request = NoCall

McpNext ==
    \/ \E name \in ServerNames : StartServer(name)
    \/ \E name \in ServerNames : AddMcpServer(name)
    \/ InitResponse
    \/ ListResponse
    \/ \E name \in ServerNames : StopServer(name)
    \/ StopAllServers
    \/ GraceExpired
    \/ Stopped

(* --------------------------- specifications ---------------------------- *)
AgentInit ==
    /\ agent \in AgentClasses
    /\ entry = "run"
    /\ caller \in {"direct", "helper"}
    /\ messages \in {<<>>, <<SystemMessage>>}
    /\ max_iterations = 0
    /\ pc = "idle"
    /\ i = 0
    /\ tool_calls = <<>>
    /\ k = 0
    /\ result = None
    /\ model_calls = 0
    /\ steady = TRUE

StreamInit ==
    /\ completion = <<>>
    /\ current_message = EmptyMessage

\* the messages file has not been read
JsonInit == loaded = <<>>

\* an agent constructed with one local tool and no server configuration
ConstructInit ==
    /\ phase = "constructed"
    /\ pending = {}
    /\ attempted = {}
    /\ arg_tool_definitions = <<ToolDefinition("read_file", "local")>>
    /\ arg_tool_callables = [n \in LocalTools |-> "local"]

ShellInit ==
    /\ shell_pc = "idle"
    /\ shell_call = NoShellCall
    /\ shell_outcomes = <<>>

ClosureInit ==
    /\ callables = <<>>
    /\ frames = <<>>
    /\ tool_name = None
    /\ remaining = <<>>

\* the second agent is constructed with the arguments of the first
TwinInit ==
    /\ streaming_messages = messages
    /\ streaming_result = None

\* one pass of `for chunk in completion` of the OpenAI agents
StreamChunk ==
    /\ Len(completion) < MaxFragments
    /\ \E chunk \in FragmentChunks :
          /\ completion' = Append(completion, chunk)
          /\ current_message' = AccumulateOpenAI(current_message, <<chunk>>)
    /\ UNCHANGED <<agentVars, helperVars, mcpVars, twinVars, jsonVars, constructVars, shellVars, closureVars>>

HelperInit ==
    /\ serializable_messages = <<>>
    /\ messages_file = "unwritten"
    /\ ret = None

\* an agent and its call: run or run_with_streaming
Init ==
    AgentInit /\ HelperInit /\ McpInit /\ StreamInit /\ TwinInit /\ JsonInit /\ ConstructInit /\ ShellInit /\ ClosureInit /\ caller = "direct" /\ servers = {}

AgentNext ==
    \/ \E e \in Entries, n \in 0..MaxIter : Run(e, n)
    \/ ModelReplies
    \/ ModelStreams
    \/ ModelRepliesEmpty
    \/ ModelFails
    \/ ToolReturns(StrValue(ToolOutput))
    \/ ToolRaises

Next == AgentNext

Spec == Init /\ [][Next]_vars

\* run_agent_with_question: CURRENT_AGENT picks the class, the system prompt
\* is always given
InitHelper ==
    /\ AgentInit /\ HelperInit /\ McpInit /\ StreamInit /\ TwinInit /\ JsonInit /\ ConstructInit /\ ShellInit /\ ClosureInit /\ servers = {}
    /\ caller = "helper"
    /\ agent \in {"OpenAIAgent", "OllamaAgent"}
    /\ messages = <<SystemMessage>>

NextHelper ==
    \/ AgentNext
    \/ HelperSerialize
    \/ HelperSave

SpecHelper == InitHelper /\ [][NextHelper]_vars

\* run_agent_with_question(question, stream=False) from the run of the agent
\* to the return of the pair, for a max_iterations below MaxIter
NextHistory ==
    \/ \E n \in 0..(MaxIter - 1) : Run("run", n)
    \/ ModelReplies
    \/ ModelRepliesEmpty
    \/ ToolReturns(StrValue(ToolOutput))
    \/ ToolRaises
    \/ HelperSerialize
    \/ HelperSave

SpecHistory == InitHelper /\ [][NextHistory]_vars

\* an OpenAIAgentWithMCP constructed without mcp_servers_config (no manager
\* yet, no server configured), then driven by the public operations of the
\* agent and of its manager
InitMCP ==
    /\ AgentInit /\ HelperInit /\ McpInit /\ StreamInit /\ TwinInit /\ JsonInit /\ ConstructInit /\ ShellInit /\ ClosureInit
    /\ caller = "direct"
    /\ agent = "OpenAIAgentWithMCP"
    /\ messages = <<>>
    /\ servers = {}

SpecMCP == InitMCP /\ [][McpNext]_vars

\* the start and the stop of one server; the wait of stop_server ends (by the
\* exit of the child or by the timeout of wait_for), and a killed child exits
NextStop ==
    \/ AddMcpServer("fs")
    \/ InitResponse
    \/ ListResponse
    \/ StopServer("fs")
    \/ StopAllServers
    \/ GraceExpired
    \/ Stopped

SpecStop ==
    InitMCP /\ [][NextStop]_vars /\ WF_vars(GraceExpired) /\ WF_vars(Stopped)

\* the names call_tool is given: the tools a server "fs" may contribute, and
\* one that is in no catalogue
CallNames == {Namespaced("fs", t) : t \in ToolNames} \cup {"ghost"}

\* one connection: the handshake of the server "fs" and the tool calls that
\* follow it, against a server that may write notifications
NextRpc ==
    \/ spawned = <<>> /\ AddMcpServer("fs")
    \/ InitResponse
    \/ ListResponse
    \/ ServerNotifies
    \/ \E tool \in CallNames, arguments \in Arguments : CallTool(tool, arguments)
    \/ CallResponse

SpecRpc == InitMCP /\ [][NextRpc]_vars

\* the streaming accumulator of the OpenAI agents, fed any chunks
InitStream == Init /\ agent = "OpenAIAgent" /\ messages = <<>>

NextStream == StreamChunk

SpecStream == InitStream /\ [][NextStream]_vars

\* OpenAIAgentWithMCP(tool_definitions=..., tool_callables=...,
\* mcp_servers_config=...) from the creation of the manager on, and
\* add_mcp_server on the agent it constructs
InitConstruct ==
    /\ AgentInit /\ HelperInit /\ StreamInit /\ TwinInit /\ JsonInit /\ ShellInit /\ ClosureInit
    /\ caller = "direct"
    /\ agent = "OpenAIAgentWithMCP"
    /\ messages = <<>>
    /\ servers \in SUBSET ServerNames
    /\ processes = <<>>
    /\ tools = <<>>
    /\ spawned = <<>>
    /\ alive = {}
    /\ wire = <<>>
    /\ mpc = "idle"
    /\ op = None
    /\ cur = None
    /\ todo = {}
    /\ last = Outcome(None, None, None, "none")
    /\ tool_definitions = <<>>
    /\ tool_callables = <<>>
    /\ signals = <<>>
    /\ ignoring = {}
    /\ pipe = <<>>
    /\ answers = <<>>
    /\ call_request = NoCall
    /\ phase = "starting"
    /\ pending = servers
    /\ attempted = {}
    /\ arg_tool_definitions \in ArgToolDefinitions
    /\ arg_tool_callables \in ArgToolCallables

NextConstruct ==
    \/ \E name \in ServerNames : ConstructStart(name)
    \/ ConstructRegister
    \/ InitResponse
    \/ ListResponse
    \/ \E name \in ServerNames : AddMcpServerLater(name)

SpecConstruct == InitConstruct /\ [][NextConstruct]_vars

\* get_tool_callables up to its loop: callables = {}
GetToolCallables ==
    /\ mpc = "idle"
    /\ remaining = <<>>
    /\ tools # <<>>
    /\ callables' = <<>>
    /\ frames' = <<>>
    /\ remaining' = SelectSeq(CatalogueOrder, LAMBDA n : n \in DOMAIN tools)
    /\ UNCHANGED <<agentVars, helperVars, mcpVars, streamVars, twinVars, jsonVars,
                   constructVars, shellVars, tool_name>>

\* mutant of Bound: the lambda reads the loop variable of get_tool_callables
BoundToLoopVariable(tn) == tool_name

\* the name the body of a lambda reads as tn: the parameter of the call of
\* make_tool_callable that made it
Bound(tn) == tn

\* one iteration of the loop: callables[tool_name] = make_tool_callable(tool_name)
RegisterCallable ==
    /\ remaining # <<>>
    /\ tool_name' = Head(remaining)
    /\ frames' = Append(frames, tool_name')
    /\ callables' = Update(callables, [n \in {tool_name'} |-> Len(frames')])
    /\ remaining' = Tail(remaining)
    /\ UNCHANGED <<agentVars, helperVars, mcpVars, streamVars, twinVars, jsonVars,
                   constructVars, shellVars>>

\* callables[n](**kwargs) once the dict is returned: the body of the lambda,
\* self.call_tool(tn, kwargs)
InvokeCallable(n, kwargs) ==
    /\ remaining = <<>>
    /\ n \in DOMAIN callables
    /\ CallTool(Bound(frames[callables[n]]), kwargs)

\* the callables of a catalogue of server "fs", built and invoked
NextCallables ==
    \/ spawned = <<>> /\ AddMcpServer("fs")
    \/ InitResponse
    \/ ListResponse
    \/ GetToolCallables
    \/ RegisterCallable
    \/ \E n \in CallNames, kwargs \in Arguments : InvokeCallable(n, kwargs)
    \/ CallResponse

SpecCallables == InitMCP /\ [][NextCallables]_vars

\* call_tool for any name, against a server "fs" that may answer tools/call
\* with any line, a malformed one included
NextCall ==
    \/ spawned = <<>> /\ AddMcpServer("fs")
    \/ InitResponse
    \/ ListResponse
    \/ \E tool \in CallNames, arguments \in Arguments : CallTool(tool, arguments)
    \/ CallResponse
    \/ CallResponseMalformed

SpecCall == InitMCP /\ [][NextCall]_vars

NextShell ==
    \/ \E command \in Commands, working_directory \in WorkingDirectories :
          ExecuteShellCommand(command, working_directory)
    \/ CommandCompletes
    \/ CommandTimesOut
    \/ CommandFails

SpecShell == Init /\ [][NextShell]_vars

\* most messages in a history that is serialized
MaxHistory == 2

\* the histories whose messages hold a role and a content of any kind
Histories ==
    SeqsUpTo({[role |-> PyText(r), content |-> c] :
                 r \in {"user", "tool"}, c \in ContentObjects}, MaxHistory)
        \ {<<>>}

\* the call of the agent is over and left a history; the history is made
\* serializable, written to the messages file, and the file read back
InitSerialize ==
    /\ agent \in {"OpenAIAgent", "OllamaAgent"}
    /\ entry = "run"
    /\ caller = "serializer"
    /\ messages \in Histories
    /\ max_iterations = 0
    /\ pc = "returned"
    /\ i = 0
    /\ tool_calls = <<>>
    /\ k = 0
    /\ result = "answer"
    /\ model_calls = 0
    /\ steady = TRUE
    /\ HelperInit /\ McpInit /\ StreamInit /\ TwinInit /\ JsonInit /\ ConstructInit /\ ShellInit /\ ClosureInit
    /\ servers = {}

NextSerialize ==
    \/ SerializeMessages
    \/ SaveMessages
    \/ LoadMessages

SpecSerialize == InitSerialize /\ [][NextSerialize]_vars

\* the assistant message just appended carries at most one request, made of
\* a name and an argument text a whole reply may carry, and at most one
\* fragment of content
AtMostOneRequest ==
    \A p \in (Len(messages) + 1)..Len(messages') :
        messages'[p].role = "assistant" =>
            /\ Len(messages'[p].tool_calls) <= 1
            /\ messages'[p].content \in {None, "", "answer"}
            /\ \A n \in 1..Len(messages'[p].tool_calls) :
                  /\ messages'[p].tool_calls[n].name \in RequestNames(agent)
                  /\ messages'[p].tool_calls[n].arguments \in ArgTexts

\* a sequence of calls on one agent, against a model that asks for at most
\* one tool in a message
NextSession ==
    \/ \E e \in Entries, n \in 0..MaxIter : Run(e, n)
    \/ \E e \in Entries, n \in 0..MaxIter : RunAgain(e, n)
    \/ ModelReplies /\ AtMostOneRequest
    \/ ModelStreams /\ AtMostOneRequest
    \/ ModelRepliesEmpty
    \/ ModelFails
    \/ ToolReturns(StrValue(ToolOutput))
    \/ ToolRaises

SpecSession == Init /\ [][NextSession]_vars

\* the first turn of a call, and what the call does after it, for an agent
\* whose callables return values of every type
NextDispatch ==
    \/ \E e \in Entries, n \in 0..MaxIter : Run(e, n)
    \/ model_calls = 1 /\ ModelReplies
    \/ model_calls = 1 /\ ModelStreams
    \/ \E tool_output \in ToolOutputs : ToolReturns(tool_output)
    \/ ToolRaises

SpecDispatch == Init /\ [][NextDispatch]_vars

\* two agents constructed alike, asked the same question through the two
\* entries, and given the same assistant messages and the same tool outcomes
NextTwin ==
    \/ \E n \in 0..MaxIter : TwinRun(n)
    \/ TwinModelReplies
    \/ TwinToolReturns
    \/ TwinToolRaises

SpecTwin == Init /\ [][NextTwin]_vars

(* ======================= properties of the loop ======================== *)
\* whether text t occurs in text s
Contains(s, t) ==
    \E j \in 1..(Len(s) - Len(t) + 1) : SubSeq(s, j, j + Len(t) - 1) = t

\* a tool-role message correlated to a request: by id, or by name
Correlated(d, m, req) ==
    /\ m.role = "tool"
    /\ IF d = "openai" THEN m.tool_call_id = req.id ELSE m.name = req.name

\* no call is in progress: the turn (if any) is over
Quiescent == pc \in {"model", "returned", "raised"}

\* positions of the assistant messages that carry requests
Turns == {p \in 1..Len(messages) :
            messages[p].role = "assistant" /\ messages[p].tool_calls # <<>>}

\* the requests before the n-th of the turn at p have their responses, in order
AnsweredBefore(p, n) ==
    /\ Len(messages) >= p + n - 1
    /\ \A j \in 1..(n - 1) :
          Correlated(Dialect(agent), messages[p + j], messages[p].tool_calls[j])

\* C1: once a turn is over, an assistant message with N >= 1 requests is
\* followed by exactly N tool-role messages, the n-th correlated to the n-th
\* request
C1_DispatchCorrelation ==
    Quiescent =>
        \A p \in Turns :
            LET N == Len(messages[p].tool_calls)
            IN /\ AnsweredBefore(p, N + 1)
               /\ Len(messages) > p + N => messages[p + N + 1].role # "tool"

\* C2: in the OpenAI dialect a request whose argument text does not parse is
\* answered by a tool-role message, the rest of its turn is dispatched and
\* the run goes on
C2_ParseFailureNonFatal ==
    (Dialect(agent) = "openai" /\ Quiescent) =>
        /\ result # ApiError(JSONDecodeError)
        /\ \A p \in Turns :
             \A n \in 1..Len(messages[p].tool_calls) :
                ~JsonLoads(messages[p].tool_calls[n].arguments).ok =>
                    AnsweredBefore(p, Len(messages[p].tool_calls) + 1)

\* C3: a request whose name is not registered, once its turn reaches it, is
\* answered by a tool-role message that names the tool and says it was not
\* found, and the run never raises on it
C3_NotFoundNonFatal ==
    Quiescent =>
        \A p \in Turns :
            \A n \in 1..Len(messages[p].tool_calls) :
                LET req == messages[p].tool_calls[n]
                IN (req.name \notin Registry(agent) /\ AnsweredBefore(p, n)) =>
                      /\ Len(messages) >= p + n
                      /\ Correlated(Dialect(agent), messages[p + n], req)
                      /\ Contains(messages[p + n].content, req.name)
                      /\ Contains(messages[p + n].content, "not found")

\* messages the history held before the call: the optional system message
BaseLen == IF Len(messages) > 0 /\ messages[1].role = "system" THEN 1 ELSE 0

\* C4: against a model that always asks for exactly one registered tool, the
\* run ends only by the sentinel, after exactly max_iterations model calls,
\* the history grown by at least 1 + 2 * max_iterations
C4_IterationBound ==
    (steady /\ pc \in {"returned", "raised"}) =>
        /\ pc = "returned"
        /\ result = SENTINEL
        /\ model_calls = max_iterations
        /\ Len(messages) - BaseLen >= 1 + 2 * max_iterations

\* C5: a model call that fails ends the run at once with a returned error
\* string; it is never raised to the caller
C5_ModelFailureReturned ==
    [][ModelFails => (pc' = "returned" /\ Contains(result', ConnectionError))]_vars

\* C7: the assistant message is in the history before its tool responses; when
\* the callable of request k is invoked the responses of requests 1..k-1 of
\* the turn are the last k-1 messages; and a further model call is issued only
\* when every request of the turn has its response
C7_SequentialDispatch ==
    /\ pc = "tool" =>
          LET p == Len(messages) - (k - 1)
          IN /\ p \in Turns
             /\ messages[p].tool_calls = tool_calls
             /\ AnsweredBefore(p, k)
    /\ (pc = "model" /\ model_calls > 1) =>
          LET p == Len(messages) - Len(tool_calls)
          IN /\ p \in Turns
             /\ messages[p].tool_calls = tool_calls
             /\ AnsweredBefore(p, Len(tool_calls) + 1)

\* C7 witness: the MCP agent invokes the callable of a second request, and a
\* second model call follows a turn of two requests
C7_Witness ==
    /\ agent = "OpenAIAgentWithMCP"
    /\ pc = "model" /\ model_calls = 2
    /\ Len(tool_calls) = 2
    /\ messages[Len(messages)].content = ToolOutput

(* ======================= properties of the helper ====================== *)
\* C6: run_agent_with_question never raises, and once it is over it has
\* returned the pair (result, history)
C6_HelperAlwaysReturnsPair ==
    caller = "helper" =>
        /\ pc # "raised"
        /\ pc = "helper_returned" => ret = <<result, serializable_messages>>

(* ===================== properties of the MCP client ==================== *)
Reads == {"r:" \o r : r \in InitResponses}

C9_HandshakeFailureNotStarted ==
    (mpc = "idle" /\ last.op \in {"start_server", "add_mcp_server"}
                 /\ last.handshake = "failed") =>
        /\ last.returned = "False"
        /\ last.name \notin DOMAIN processes
        /\ \A n \in DOMAIN tools : tools[n].server # last.name

\* C10: between operations no server name has two live child processes
C10_OneLiveProcessPerName ==
    mpc = "idle" =>
        \A name \in ServerNames :
            Cardinality({pid \in alive : spawned[pid] = name}) <= 1

\* the servers a stop that has returned was to stop
StoppedNames ==
    IF last.op = "stop_all_servers" THEN ServerNames
    ELSE IF last.op = "stop_server" THEN {last.name}
    ELSE {}

\* C11: once stop_server(S) or stop_all_servers has returned, no tool that S
\* contributed is left in the client's catalogue, in the agent's
\* tool_definitions or in the agent's tool_callables
C11_StopRemovesTools ==
    mpc = "idle" =>
        /\ \A n \in DOMAIN tools : tools[n].server \notin StoppedNames
        /\ \A j \in 1..Len(tool_definitions) :
              tool_definitions[j].source \notin StoppedNames
        /\ \A n \in DOMAIN tool_callables : tool_callables[n] \notin StoppedNames

\* C12: the kill is sent only after the terminate, while stop_server waits,
\* to a child that has not exited by the end of the grace period; a child
\* that ignores the terminate is killed and reaped, its handle removed, and
\* the stop returns
C12_GracefulThenForced ==
    /\ [][(signals' # signals /\ \E j \in 1..Len(signals') : signals'[j] = "kill") =>
            /\ mpc = "stop_wait"
            /\ signals = <<"terminate">>
            /\ signals' = <<"terminate", "kill">>
            /\ processes[cur] \in alive \cap ignoring]_vars
    /\ \A pid \in 1..MaxSpawns :
          (pid \in ignoring) ~>
              (/\ mpc = "idle"
               /\ pid \notin alive
               /\ \A name \in DOMAIN processes : processes[name] # pid)

\* C12 witness: a child that ignored the terminate has been sent the kill
C12_Witness ==
    /\ mpc = "kill_wait"
    /\ signals = <<"terminate", "kill">>
    /\ processes[cur] \in ignoring

\* the calls that find nothing to stop: stop_server for a name without a
\* handle, stop_all_servers with no handle at all
StopsNothing ==
    \/ \E name \in ServerNames \ DOMAIN processes : StopServer(name)
    \/ DOMAIN processes = {} /\ StopAllServers

\* C13: when stop_all_servers has returned no handle is left and the
\* catalogue is empty; a stop that finds nothing to stop returns at once and
\* changes nothing
C13_StopAllIdempotent ==
    /\ []((mpc = "idle" /\ last.op = "stop_all_servers") =>
            (DOMAIN processes = {} /\ DOMAIN tools = {}))
    /\ [][StopsNothing =>
            /\ mpc' = "idle"
            /\ UNCHANGED <<servers, processes, tools, spawned, alive, wire,
                           tool_definitions, tool_callables, pipe>>]_vars

\* C13 witness: stop_all_servers called with no handle left, after every
\* server that had been started was stopped
C13_Witness ==
    /\ mpc = "idle"
    /\ last = Outcome("stop_all_servers", None, None, "none")
    /\ Len(spawned) = MaxSpawns
    /\ alive = {}

(* ================== properties of the server connections =============== *)
IsRead(x) == Len(x) >= 2 /\ SubSeq(x, 1, 2) = "r:"

\* C14: on every connection a request that is not the last line is followed
\* at once by the read of one line, and a line is read only after a request:
\* never are two requests outstanding
C14_OneInOneOut ==
    \A pid \in 1..Len(wire) :
        LET w == wire[pid]
        IN /\ \A j \in 1..Len(w) :
                 /\ (w[j] \in RequestWrites /\ j < Len(w)) => IsRead(w[j + 1])
                 /\ IsRead(w[j]) => (j > 1 /\ w[j - 1] \in RequestWrites)
           /\ Requests(w) - Cardinality({j \in 1..Len(w) : IsRead(w[j])}) \in {0, 1}
           /\ (mpc = "idle" /\ pid \in alive /\ Len(w) > 1) => IsRead(w[Len(w)])

\* C14 witness: a connection that went through the handshake and two tool calls
C14_Witness ==
    \E pid \in 1..Len(wire) :
        /\ Len(wire[pid]) = 9
        /\ wire[pid][6] = "w:tools/call"
        /\ wire[pid][8] = "w:tools/call"
        /\ IsRead(wire[pid][9])

\* C15: every line the client consumes as the response to a request is the
\* server's response to that request
C15_ResponseMatchesRequest ==
    \A pid \in 1..Len(answers) :
        \A j \in 1..Len(answers[pid]) :
            answers[pid][j].line = answers[pid][j].request

\* the texts of the elements of type "text", in array order
TextsOf(content) ==
    LET at == {j \in 1..Len(content) : content[j].type = "text"}
    IN [n \in 1..Cardinality(at) |->
          content[CHOOSE j \in at : Cardinality({h \in at : h <= j}) = n].text]

\* C16: the tools/call request goes to the child of the server the tool is
\* registered for, carries the un-prefixed name and the arguments given; for
\* a result with a content array the text returned is the texts of its
\* elements of type "text", in order, joined by newlines (the texts of
\* ContentElements are one character long, so text n is character 2n - 1)
C16_CallToolRequestAndText ==
    /\ mpc = "call_read" =>
          /\ call_request.tool = Namespaced(spawned[call_request.pid], call_request.name)
          /\ call_request.pid = processes[tools[call_request.tool].server]
          /\ call_request.arguments = call_request.given
          /\ wire[call_request.pid][Len(wire[call_request.pid])] = "w:tools/call"
    /\ (mpc = "idle" /\ last.op = "call_tool"
                    /\ call_request.line.kind = "result"
                    /\ call_request.line.shape = "content") =>
          LET texts == TextsOf(call_request.line.content)
          IN /\ last.name = call_request.tool
             /\ Len(last.returned) =
                   (IF texts = <<>> THEN 0 ELSE Len(texts) - 1) + Len(texts)
             /\ \A n \in 1..Len(texts) :
                   SubSeq(last.returned, 2 * n - 1, 2 * n - 1) = texts[n]
             /\ \A n \in 1..(Len(texts) - 1) :
                   SubSeq(last.returned, 2 * n, 2 * n) = "\n"

\* C16 witness: a call returned the two texts of a content array that also
\* held an element of another type
C16_Witness ==
    /\ mpc = "idle"
    /\ last.op = "call_tool"
    /\ call_request.line.shape = "content"
    /\ Len(call_request.line.content) = MaxContent
    /\ \E j \in 1..MaxContent : call_request.line.content[j].type = "image"
    /\ last.returned = "a"

\* C17: a response with an error field yields a string that describes the
\* failure; a JSON response that has neither a result.content array nor an
\* error field yields "Unknown response format"
C17_ErrorAndUnknownShapes ==
    (mpc = "idle" /\ last.op = "call_tool") =>
        /\ call_request.line.kind = "error" => Contains(last.returned, RpcErrorMessage)
        /\ (\/ call_request.line.kind = "notification"
            \/ call_request.line.kind = "result" /\ call_request.line.shape # "content")
              => last.returned = "Unknown response format"

(* ==================== properties of the tool catalogue ================= *)
\* C18: every catalogue entry is named {server_name}_{original_name}, no two
\* entries of tool_definitions carry the same name, and the callable of a
\* name belongs to the source of its one definition
C18_NamesUnique ==
    /\ \A n \in DOMAIN tools :
          n = Namespaced(tools[n].server, tools[n].original_name)
    /\ \A j, h \in 1..Len(tool_definitions) :
          tool_definitions[j].name = tool_definitions[h].name => j = h
    /\ \A j \in 1..Len(tool_definitions) :
          /\ tool_definitions[j].name \in DOMAIN tool_callables
          /\ tool_callables[tool_definitions[j].name] = tool_definitions[j].source

(* ================ properties of the streaming accumulator ============== *)
\* the tool-call fragments of the chunks consumed, in arrival order
RECURSIVE Fragments(_)
Fragments(chunks) ==
    IF chunks = <<>> THEN <<>> ELSE Head(chunks).deltas \o Fragments(Tail(chunks))

\* the fragments that carry index n, in arrival order
FragmentsOf(n) == SelectSeq(Fragments(completion), LAMBDA d : d.index = n)

\* the concatenation of the texts of a sequence
RECURSIVE Concat(_)
Concat(texts) == IF texts = <<>> THEN "" ELSE Head(texts) \o Concat(Tail(texts))

\* the last text of a sequence that is not empty, "" when there is none
LastNonEmpty(texts) ==
    LET at == {j \in 1..Len(texts) : texts[j] # ""}
    IN IF at = {} THEN "" ELSE texts[CHOOSE j \in at : \A h \in at : h <= j]

\* C19: the message has (highest index seen + 1) slots, slot n holds the
\* argument fragments of index n concatenated in arrival order, and the slot
\* of an index that got no fragment is the empty placeholder
C19_IndexMerge ==
    LET ds == Fragments(completion)
        seen == {ds[j].index : j \in 1..Len(ds)}
        slots == current_message.tool_calls
    IN /\ seen = {} => slots = <<>>
       /\ seen # {} => Len(slots) = 1 + CHOOSE n \in seen : \A h \in seen : h <= n
       /\ \A n \in 0..(Len(slots) - 1) :
             /\ slots[n + 1].arguments =
                   Concat([j \in 1..Len(FragmentsOf(n)) |-> FragmentsOf(n)[j].arguments])
             /\ n \notin seen => slots[n + 1] = Placeholder

\* C19 witness: fragments arrived with the indices 0, 2, 1 in that order,
\* each with an argument fragment
C19_Witness ==
    LET ds == Fragments(completion)
    IN /\ Len(ds) = 3
       /\ ds[1].index = 0 /\ ds[2].index = 2 /\ ds[3].index = 1
       /\ \A j \in 1..3 : ds[j].arguments # ""
       /\ Len(current_message.tool_calls) = 3

\* the content fragments of the chunks consumed, in arrival order
RECURSIVE Contents(_)
Contents(chunks) ==
    IF chunks = <<>> THEN <<>>
    ELSE (IF Head(chunks).content # None THEN <<Head(chunks).content>> ELSE <<>>)
         \o Contents(Tail(chunks))

\* C20: the content is the content fragments concatenated in arrival order;
\* the id and the name of a slot are the last non-empty id and name of its
\* index; a chunk only appends to the arguments of a slot
C20_FragmentMerge ==
    /\ [](/\ current_message.content = Concat(Contents(completion))
          /\ \A n \in 0..(Len(current_message.tool_calls) - 1) :
                LET fs == FragmentsOf(n)
                    slot == current_message.tool_calls[n + 1]
                IN /\ slot.id = LastNonEmpty([j \in 1..Len(fs) |-> fs[j].id])
                   /\ slot.name = LastNonEmpty([j \in 1..Len(fs) |-> fs[j].name]))
    /\ [][\A n \in 1..Len(current_message.tool_calls) :
             LET before == current_message.tool_calls[n].arguments
                 after == current_message'.tool_calls[n].arguments
             IN /\ Len(current_message'.tool_calls) >= n
                /\ Len(after) >= Len(before)
                /\ SubSeq(after, 1, Len(before)) = before]_vars

\* C20 witness: a slot got an id and a name, then other ones, then a
\* fragment without id and name
C20_Witness ==
    /\ Len(Fragments(completion)) = 3
    /\ current_message.tool_calls = <<Request("b", "g", "xyx")>>
    /\ Fragments(completion)[3].id = ""

(* ====================== properties of the two entries ================== *)
\* C21: the agent called through run and the agent called through
\* run_with_streaming, given the same assistant messages (whole, and as a
\* fragmentation) and the same tool outcomes, hold the same history, and once
\* the calls have returned they have returned the same string
C21_EntriesConverge ==
    /\ streaming_messages = messages
    /\ pc = "returned" => streaming_result = result

(* ==================== properties of the tool dispatcher ================ *)
\* the text the history is to hold for a returned value
ExpectedText(v) ==
    CASE v = StrValue("out") -> "out"
      [] v = BoolValue(TRUE) -> "True"
      [] v = ListValue(<<"a", "b">>) -> "['a', 'b']"
      [] v = DictValue(<<[key |-> "success", truth |-> FALSE]>>) -> "{'success': False}"

ResultOf(content) == IF content = None THEN "" ELSE content

\* C23: a step that appends an assistant message without tool calls appends
\* nothing else, ends the call and returns the content of that message (the
\* empty string for a content that is None) without a further model call;
\* and the only step of an agent whose call has returned is the next call: no
\* model call is issued and no callable invoked before a new user message
C23_FinalMessageTerminal ==
    /\ [][LET p == Len(messages) + 1
          IN (/\ Len(messages') >= p
              /\ messages'[p].role = "assistant"
              /\ messages'[p].tool_calls = <<>>) =>
                 /\ Len(messages') = p
                 /\ SubSeq(messages', 1, Len(messages)) = messages
                 /\ pc' = "returned"
                 /\ result' = ResultOf(messages'[p].content)
                 /\ model_calls' = model_calls]_vars
    /\ [][pc = "returned" =>
             /\ Len(messages') = Len(messages) + 1
             /\ messages'[Len(messages')] = UserMessage("question")
             /\ pc' # "tool"
             /\ model_calls' > model_calls => (pc' = "model" /\ i' = 1)]_vars

\* C23 witness: the second call on an agent has returned the content of a
\* final assistant message, after a first call that dispatched a tool
C23_Witness ==
    /\ pc = "returned"
    /\ Runs = 2
    /\ result = "answer"
    /\ messages[Len(messages)].role = "assistant"
    /\ messages[Len(messages)].tool_calls = <<>>
    /\ \E p \in 1..Len(messages) : messages[p].role = "tool"

(* ==================== properties of the messages file ================== *)
\* C24: once the messages file has been read back, every message whose
\* content was an object without a JSON representation has the role it had
\* and, as its content, the string form of that object
C24_RoundTrip ==
    loaded # <<>> =>
        /\ Len(loaded) = Len(messages)
        /\ \A p \in 1..Len(messages) :
              messages[p].content.type \notin {"str", "NoneType", "dict"} =>
                  /\ loaded[p].role = PyText(messages[p].role.text)
                  /\ loaded[p].content = PyText(messages[p].content.text)

(* ================ properties of execute_shell_command ================== *)
\* C29: a command that exceeds its time limit is reported by a returned
\* result with success false and return_code 124, and every other failure
\* (a missing working directory, an exception of subprocess.run, a non-zero
\* exit) by a returned result with success false; no call raises
C29_TimeoutIsReturned ==
    /\ [](\A n \in 1..Len(shell_outcomes) :
            /\ ~shell_outcomes[n].raised
            /\ shell_outcomes[n].success <=> shell_outcomes[n].return_code = 0)
    /\ [][CommandTimesOut =>
             LET outcome == shell_outcomes'[Len(shell_outcomes')]
             IN ~outcome.raised /\ ~outcome.success /\ outcome.return_code = 124]_vars

\* a call timed out after a call that ended in time with exit code 0
C29_Witness ==
    /\ Len(shell_outcomes) = 2
    /\ shell_outcomes[1].success
    /\ shell_outcomes[2] = TimeoutExpired
    /\ shell_call.command = "sleep 60"

(* ================= properties of the agent's construction ============== *)
\* C25: constructing the agent and calling add_mcp_server on it leave the
\* list and the dict that the caller passed as tool_definitions and
\* tool_callables as they were when they were passed
C25_CallerToolsUnchanged ==
    /\ CallerToolDefinitions = arg_tool_definitions
    /\ CallerToolCallables = arg_tool_callables

\* C26: when the loop of the constructor is over, a start has been
\* attempted for every configured server, whatever the starts before it
\* came to, and every tool in the catalogue (the tools of the servers whose
\* handshake succeeded) is registered in the agent's list and dict
C26_OtherServersStillStarted ==
    [][ConstructRegister =>
          /\ attempted = servers
          /\ \A n \in DOMAIN tools :
                /\ n \in DOMAIN tool_callables'
                /\ tool_callables'[n] = tools[n].server
                /\ \E j \in 1..Len(tool_definitions') :
                      tool_definitions'[j] = ToolDefinition(n, tools[n].server)]_vars

\* the agent is constructed; the first server started answered initialize
\* with an error, and a tool of the second one is registered
C26_Witness ==
    /\ phase = "constructed"
    /\ Len(spawned) = 2
    /\ wire[1] = <<"w:initialize", "r:error">>
    /\ \E n \in DOMAIN tool_callables : tool_callables[n] = spawned[2]
    /\ \E j \in 1..Len(tool_definitions) : tool_definitions[j].source = spawned[2]

(* ======================= properties of start_server ==================== *)
\* C27: a start_server for a name that is not configured, or whose child
\* process fails to spawn, returns False and leaves the live handles and the
\* tool catalogue as they were
C27_FailedStartChangesNothing ==
    [][\A name \in ServerNames :
          StartServer(name) /\ (name \notin servers \/ spawned' = spawned) =>
              /\ mpc' = "idle"
              /\ last'.op = "start_server" /\ last'.name = name
              /\ last'.returned = "False"
              /\ processes' = processes
              /\ alive' = alive
              /\ tools' = tools]_vars

\* the child of a configured server failed to spawn while another server
\* runs with its tools in the catalogue
C27_Witness ==
    /\ last.op = "start_server"
    /\ last.returned = "False"
    /\ last.handshake = "nospawn"
    /\ last.name \in servers
    /\ DOMAIN processes # {}
    /\ DOMAIN tools # {}

(* ================== properties of the returned value =================== *)
\* C28: OpenAIAgent.run and OpenAIAgent.run_with_streaming never raise, and
\* the value they return is a string: the content of the final assistant
\* message (the empty string when it has none), an "API error: ..." string,
\* or the iteration-limit sentinel
C28_OpenAIReturnsString ==
    agent = "OpenAIAgent" =>
        /\ pc # "raised"
        /\ pc = "returned" =>
              /\ result # None
              /\ \/ result = SENTINEL
                 \/ result \in {ApiError(e) : e \in {ConnectionError, JSONDecodeError}}
                 \/ /\ messages[Len(messages)].role = "assistant"
                    /\ messages[Len(messages)].tool_calls = <<>>
                    /\ result = ResultOf(messages[Len(messages)].content)

\* run of an OpenAIAgent has returned the empty string for a final message
\* without content, after a tool was dispatched
C28_Witness ==
    /\ agent = "OpenAIAgent" /\ entry = "run"
    /\ pc = "returned"
    /\ messages[Len(messages)].role = "assistant"
    /\ messages[Len(messages)].content = None
    /\ result = ""
    /\ \E p \in 1..Len(messages) : messages[p].role = "tool"

(* ======================= properties of the history ===================== *)
\* C30: across calls of run and run_with_streaming on one agent every step
\* only appends to the history: the history before the step is a prefix of
\* the history after it; a system message is the first message and stays it
C30_HistoryAppendOnly ==
    /\ [][/\ Len(messages') >= Len(messages)
          /\ SubSeq(messages', 1, Len(messages)) = messages]_vars
    /\ [](\A p \in 1..Len(messages) : messages[p].role = "system" => p = 1)
    /\ [][(messages # <<>> /\ messages[1].role = "system") =>
             messages'[1] = messages[1]]_vars

\* the second call on an Ollama agent with a system message, made through
\* run_with_streaming, has returned after it dispatched a tool
C30_Witness ==
    /\ agent = "OllamaAgent" /\ entry = "run_with_streaming"
    /\ pc = "returned"
    /\ Runs = 2
    /\ messages[1] = SystemMessage
    /\ messages[Len(messages)].role = "assistant"
    /\ \E p \in 1..Len(messages) :
          /\ messages[p].role = "tool"
          /\ \E q \in (p + 1)..Len(messages) : messages[q].role = "user"

(* ===================== properties of the correlation =================== *)
\* the turn a message at position q belongs to: the last assistant message
\* with requests before it (0 when there is none)
TurnOf(q) ==
    LET before == {p \in Turns : p < q}
    IN IF before = {} THEN 0 ELSE CHOOSE p \in before : \A r \in before : r <= p

\* the requests of its turn that the tool-role message at q correlates to
MatchesOf(q) ==
    IF TurnOf(q) = 0 THEN {}
    ELSE {n \in 1..Len(messages[TurnOf(q)].tool_calls) :
             Correlated(Dialect(agent), messages[q], messages[TurnOf(q)].tool_calls[n])}

\* C31: every tool-role message of the history correlates (by tool_call_id
\* in the OpenAI dialect, by name in the Ollama dialect) to exactly one
\* request of an earlier assistant message: to at least one, and to no more
\* than one of its turn
C31_OneRequestPerToolMessage ==
    \A q \in 1..Len(messages) :
        messages[q].role = "tool" => Cardinality(MatchesOf(q)) = 1

(* ======================= properties of the registry ==================== *)
\* C32: after construction every step (of run, of run_with_streaming, of
\* add_mcp_server and of the client) leaves the entries of tool_definitions
\* and tool_callables in place: the list only grows at its end, and every
\* name of the mapping keeps the callable it had
C32_RegistryOnlyGrows ==
    [][phase = "constructed" =>
          /\ Len(tool_definitions') >= Len(tool_definitions)
          /\ SubSeq(tool_definitions', 1, Len(tool_definitions)) = tool_definitions
          /\ \A n \in DOMAIN tool_callables :
                /\ n \in DOMAIN tool_callables'
                /\ tool_callables'[n] = tool_callables[n]]_vars

(* ===================== properties of the iteration bound =============== *)
\* what a run that is over has returned: the content of the final assistant
\* message, an error string, or the iteration-limit sentinel
ReturnedValue ==
    \/ result = SENTINEL
    \/ result \in {EMPTY_RESPONSE, ApiError(ConnectionError), ApiError(JSONDecodeError)}
    \/ /\ messages[Len(messages)].role = "assistant"
       /\ messages[Len(messages)].tool_calls = <<>>
       /\ result = ResultOf(messages[Len(messages)].content)

\* C33: whatever the model and the tools do, a run issues at most
\* max_iterations model calls and, once it is over, has returned the final
\* assistant content, an error string or the sentinel; with max_iterations = 0
\* it issues no model call, appends the user message only and returns the
\* sentinel
C33_BoundedRunReturns ==
    /\ model_calls <= max_iterations
    /\ pc \in {"returned", "raised"} =>
          /\ pc = "returned"
          /\ ReturnedValue
    /\ (pc # "idle" /\ max_iterations = 0) =>
          /\ pc = "returned"
          /\ result = SENTINEL
          /\ model_calls = 0
          /\ Len(messages) = BaseLen + 1
          /\ messages[Len(messages)] = UserMessage("question")

(* ========================= properties of call_tool ===================== *)
\* a string that reports a failure of call_tool
IsErrorString(text) ==
    \/ StartsWith(text, "Error: ")
    \/ StartsWith(text, "Error calling tool: ")
    \/ text = "Unknown response format"

\* C34: every call_tool ends by returning a string.  For a name that is not
\* in the catalogue, or whose server has no handle, the string reports the
\* failure and nothing was written to any process; for a write that fails,
\* a line that is empty or no JSON, an error object without message, a
\* content element without type, and a line with neither result nor error,
\* the string reports the failure too
C34_CallToolReturnsString ==
    /\ [](mpc = "idle" /\ last.op = "call_tool" => last.returned # None)
    /\ [][\A tool \in CallNames, arguments \in Arguments :
             (CallTool(tool, arguments) /\
              (tool \notin DOMAIN tools \/ tools[tool].server \notin DOMAIN processes)) =>
                 /\ mpc' = "idle"
                 /\ last'.op = "call_tool" /\ last'.name = tool
                 /\ StartsWith(last'.returned, "Error: ")
                 /\ wire' = wire]_vars
    /\ [][\A tool \in CallNames, arguments \in Arguments :
             (CallTool(tool, arguments) /\ tool \in DOMAIN tools /\ wire' = wire) =>
                 /\ mpc' = "idle"
                 /\ last'.op = "call_tool"
                 /\ StartsWith(last'.returned, "Error calling tool: ")]_vars
    /\ [](mpc = "idle" /\ last.op = "call_tool" /\ call_request.pid # 0
             /\ (\/ call_request.line.kind \in {"garbage", "notification"}
                 \/ call_request.line.shape \in {"untyped", "bare"})
          => IsErrorString(last.returned))

\* a call_tool has returned an error string for a content element without
\* type
C34_Witness ==
    /\ mpc = "idle"
    /\ last.op = "call_tool"
    /\ call_request.line.shape = "untyped"
    /\ last.returned = "Error calling tool: " \o KeyError("type")
    /\ CallsWritten = 1

(* ====================== properties of add_mcp_server =================== *)
\* the entries a step appended to tool_definitions
AddedDefinitions ==
    SubSeq(tool_definitions', Len(tool_definitions) + 1, Len(tool_definitions'))

\* C35: the step that ends an add_mcp_server(name) whose start succeeded
\* appends to tool_definitions one entry for each catalogue tool of server
\* `name` and no other entry, and sets the callables of these names and of no
\* other; an add_mcp_server whose start fails returns False and leaves both
\* as they were
C35_AddsExactlyTheServersTools ==
    /\ [][(op = "add_mcp_server" /\ mpc \in {"init_read", "list_read"} /\ mpc' = "idle") =>
             LET own == {n \in DOMAIN tools' : tools'[n].server = cur}
             IN /\ last'.returned = "True"
                /\ Len(AddedDefinitions) = Cardinality(own)
                /\ \A n \in own : \E j \in 1..Len(AddedDefinitions) :
                      AddedDefinitions[j] = ToolDefinition(n, cur)
                /\ tool_callables' = Update(tool_callables, [n \in own |-> cur])]_vars
    /\ [][\A name \in ServerNames :
             (AddMcpServer(name) /\ mpc' = "idle") =>
                 /\ last'.returned = "False"
                 /\ UNCHANGED <<tool_definitions, tool_callables>>]_vars

(* ================= properties of the catalogue's entries =============== *)
\* the tools of the tools/list result read from child pid (none when it read
\* no such result)
ListedBy(pid) ==
    UNION {answers[pid][j].tools :
              j \in {j \in 1..Len(answers[pid]) :
                        answers[pid][j].kind = "result" /\ answers[pid][j].shape = "tools"}}

\* C36: between operations every entry of the catalogue belongs to a server
\* that has a handle, and the entries of a server with a handle are the
\* tools of the tools/list result its current child returned, under their
\* namespaced names: nothing of an earlier start of the name is left
C36_CatalogueOfCurrentServers ==
    mpc = "idle" =>
        /\ \A n \in DOMAIN tools : tools[n].server \in DOMAIN processes
        /\ \A name \in DOMAIN processes :
              {n \in DOMAIN tools : tools[n].server = name} =
                  {Namespaced(name, t) : t \in ListedBy(processes[name])}

\* C37: the callable get_tool_callables registers under a name N of the
\* catalogue forwards its keyword arguments to call_tool for N itself, never
\* for another tool, however many names the same call registered; and the
\* names registered are the names of the catalogue
C37_CallableForwardsToItsOwnTool ==
    /\ [](remaining = <<>> /\ callables # <<>> => DOMAIN callables = DOMAIN tools)
    /\ [][\A n \in CallNames, kwargs \in Arguments :
             InvokeCallable(n, kwargs) =>
                 call_request'.tool = n /\ call_request'.given = kwargs]_vars

\* two names were registered by one call, and the callable of the first one
\* was invoked and reached the server
C37_Witness ==
    /\ remaining = <<>>
    /\ Cardinality(DOMAIN callables) = 2
    /\ call_request.tool = "fs_read"
    /\ call_request.pid # 0
    /\ tool_name = "fs_x_read"

\* C38: in OllamaAgent.run a response without a message (the key missing, or
\* its value empty) ends the run at once: the fixed string is returned, the
\* history is left as it was and no tool is invoked
C38_EmptyResponseEndsRun ==
    [][ModelRepliesEmpty =>
          /\ pc' = "returned"
          /\ result' = EMPTY_RESPONSE
          /\ messages' = messages
          /\ tool_calls' = tool_calls /\ k' = k
          /\ model_calls' = model_calls]_vars

\* the empty response came in a later iteration, after a tool was answered
C38_Witness ==
    /\ agent = "OllamaAgent"
    /\ pc = "returned"
    /\ result = EMPTY_RESPONSE
    /\ messages[Len(messages)].role = "tool"

\* C39: the history run_agent_with_question returns has one serialized
\* message per message of the agent's history, in the same order and with the
\* same role; a message whose serialization failed is there in its basic
\* form; and the list returned is the list built before the save, whatever
\* became of the messages file
C39_HistoryOnePerMessage ==
    /\ [](caller = "helper" /\ pc = "helper_returned" =>
             /\ Len(ret[2]) = Len(messages)
             /\ \A p \in 1..Len(messages) :
                   /\ ret[2][p].role = messages[p].role
                   /\ ret[2][p] \in {messages[p], BasicMessage(messages[p])})
    /\ [][HelperSave =>
             /\ ret'[2] = serializable_messages
             /\ \A file \in {"unwritten", "full", "simplified", "partial"} :
                   ENABLED (HelperSave /\ messages_file' = file
                                       /\ ret'[2] = serializable_messages)]_vars

\* a history of a tool round was returned with one message in its basic form,
\* after a save that failed halfway
C39_Witness ==
    /\ caller = "helper" /\ pc = "helper_returned"
    /\ messages_file = "partial"
    /\ Len(ret[2]) >= 4
    /\ \E p \in 1..Len(messages) :
          /\ messages[p].role = "tool"
          /\ ret[2][p] = BasicMessage(messages[p])
          /\ ret[2][p] # messages[p]

====
